---------------------------- MODULE Spec2Model ----------------------------
(***************************************************************************)
(* A model of ptz-remote: the Panasonic trailing-edge throttle             *)
(* (internal/panasonic), the VISCA controller and the hub's PTZ dispatch   *)
(* (internal/visca, internal/server), the relay hub's viewer sessions and  *)
(* broadcast (internal/server) and the RTSP ingestion client               *)
(* (internal/rtsp).                                                        *)
(*                                                                         *)
(* Time is discrete.  One tick is half of the 50 ms minimum interval, and  *)
(* clocks are kept as ages ("ticks since ..."), saturating, so that        *)
(* now.Sub(t) >= minInterval is age >= minInterval.  Several steps may     *)
(* happen within one tick.  A critical section of one mutex is one step.   *)
(***************************************************************************)
EXTENDS Integers, Sequences, FiniteSets, TLC

(***************************************************************************)
(* Bounds of the model.                                                    *)
(***************************************************************************)
\* panasonic.go:10 and visca.go:63 (50 ms), in ticks of 25 ms
minInterval == 2
\* calls made to the Panasonic controller in one run, by kind
MaxPanTiltCalls == 3
MaxZoomCalls == 2
MaxStopCalls == 1
\* PanTilt calls in a run of the rate specification
MaxBurstCalls == 6
\* messages the viewers send in one run of the VISCA specifications
MaxMsgs == 2
\* connections the RTSP client dials in one run
MaxConns == 2
\* interleaved frames the read loop reads in one run of the broadcast
\* specification, and of the relay and ingestion specifications
MaxFrames == 3
RelayFrames == 2
\* reconnect goroutines spawned and not yet run
MaxSpawns == 1
\* connect attempts that fail in one run
MaxRefusals == 2
\* established connections that break in one run
MaxFaults == 1
\* requests on one connection: the handshake and the keepalives
MaxCSeq == 5
\* capacity of a viewer's packet queue, standing for the 500 of the program
QueueCap == 2
\* messages the viewers send in one run of the inbound-message specification
MaxInbound == 2
\* capacity of a viewer's outbound queue, standing for the 256 of the program
SendCap == 1
\* the largest pan, tilt or zoom value given to the encoders, in hundredths
MaxInput == 150
\* the largest preset number given to the controllers, and the smallest
MaxPresetInput == 300
\* runs of the browser's send loop in one run
MaxTicks == 3
\* bytes of the payload of an interleaved frame, and characters of a text
\* response before its blank line, on the upstream connection of one run
MaxPayload == 5
MaxText == 5
\* calls of Close made on one component in one run
MaxCloses == 2
\* reconnect attempts a camera that stays unreachable lets fail in one run
MaxAttempts == 40
\* read deadlines of 5 s that pass in a row without a forwarded packet and
\* are counted: three of them are 15 s of silence, more than the 10 s
MaxQuiet == 3
\* lines of the session description a camera answers DESCRIBE with
MaxSdpLines == 3

Min(a, b) == IF a < b THEN a ELSE b
Max(a, b) == IF a > b THEN a ELSE b
Last(s) == s[Len(s)]

VARIABLES
    \* the controller variant selected at configuration time
    configured,
    \* ---- Panasonic controller (internal/panasonic) ----
    pending,       \* [group -> value]   c.panTilt.pending, c.zoom.pending
    sent,          \* [group -> value]   c.panTilt.sent, c.zoom.sent
    sinceSend,     \* [group -> 0..minInterval]  now - throttle.lastSendTime
    timerRunning,  \* [group -> BOOLEAN] throttle.timerRunning
    timers,        \* [group -> Seq(Nat)] deferred-send goroutines: ticks left
    paLast,        \* [group -> the last command put on the wire and its sender]
    paSendAges,    \* [group -> ages of the sends of the last Horizon ticks]
    paPc,          \* [caller -> position of the caller's current call]
    paMine,        \* [caller -> commands its current call has issued]
    paCalls        \* [group or "Stop" -> calls the callers may still make]

paVars == <<pending, sent, sinceSend, timerRunning, timers, paLast, paSendAges,
            paPc, paMine, paCalls>>

VARIABLES
    \* ---- VISCA controller (internal/visca) and the hub's PTZ dispatch ----
    protocol,      \* Controller.protocol: "udp" or "tcp"
    viSince,       \* [group -> 0..minInterval] now - lastPanTilt, now - lastZoom
    seqNum,        \* Controller.seqNum (uint32) as [hi, lo], 16 bits each
    viWire,        \* packets written to the camera connection, oldest first
    viPc,          \* [session -> position of its readPump in handleMessage]
    viCmd,         \* [session -> payload of the ptz_command being handled]
    viNowAge,      \* [session -> ticks since its call read time.Now()]
    viMine,        \* [session -> frames its current handler has written]
    viHandled,     \* [session -> messages its readPump has taken, in order]
    viOwed,        \* [group -> a value was skipped and nothing sent since]
    viMsgs,        \* messages the viewers may still send
    viElapsed      \* ticks since the first message was taken, up to minInterval

viVars == <<protocol, viSince, seqNum, viWire, viPc, viCmd, viNowAge, viMine,
            viHandled, viOwed, viMsgs, viElapsed>>

VARIABLES
    \* ---- RTSP ingestion client (internal/rtsp) ----
    connected,     \* Client.connected
    conn,          \* Client.conn: 0 is nil, k is the k-th connection dialled
    reader,        \* Client.reader: 0 is nil, k reads connection k
    session,       \* Client.session: 0 is "", k the session of connection k
    cseq,          \* Client.cseq
    rtpChan,       \* Client.rtpChan, the publish queue, oldest first
    stopCh,        \* Client.stopCh is closed
    closed,        \* Client.closed
    connState,     \* [connection -> "none", "playing", "closed", "broken", "failed"]
    dialled,       \* connections dialled so far
    lastAttempt,   \* the last connect attempt: who made it, its requests, its end
    rlPc,          \* position of the readLoop goroutine
    rlReader,      \* the reader the readLoop captured for this iteration
    readLog,       \* interleaved frames the readLoop has read, in order
    kaPc,          \* position of the keepaliveLoop goroutine
    recSpawned,    \* reconnect goroutines started and not yet run
    recPc,         \* position of the reconnect goroutine that passed the guard
    attempt,       \* its attempt counter
    recDelay,      \* the delay of its current attempt: a time.Duration (int64)
    feed,          \* interleaved frames the camera may still send
    refusals,      \* connect attempts that may still fail
    faults         \* established connections that may still break

rcVars == <<connected, conn, reader, session, cseq, rtpChan, stopCh, closed,
            connState, dialled, lastAttempt, rlPc, rlReader, readLog, kaPc,
            recSpawned, recPc, attempt, recDelay, feed, refusals, faults>>

VARIABLES
    \* ---- relay hub and viewer sessions (internal/server) ----
    srvPc,         \* "init", "serving", "stopping", "stopped"
    rtspClient,    \* Server.rtspClient is set
    clients,       \* Server.clients, the registry
    vPc,           \* [viewer -> position of its readPump]
    vInit,         \* [viewer -> handleWebSocket has run initWebRTC]
    vRtp,          \* [viewer -> Client.rtpChan, oldest first]
    vGot,          \* [viewer -> packets ever enqueued to its queue, in order]
    vFwd,          \* [viewer -> state of its forwardRTP goroutine]
    vClosed,       \* [viewer -> Client.closed]
    vStopRTP,      \* [viewer -> times close(stopRTP) was executed]
    vSend,         \* [viewer -> times close(send) was executed]
    vWebrtc,       \* [viewer -> "none", "open", "closed"]
    vCloseCalls    \* [viewer -> calls of Client.Close]

hubVars == <<srvPc, rtspClient, clients, vPc, vInit, vRtp, vGot, vFwd, vClosed,
             vStopRTP, vSend, vWebrtc, vCloseCalls>>

VARIABLES
    \* ---- RTSP session description and control URL (internal/rtsp) ----
    url,           \* Client.url.String(), the base URL, as characters
    sdp,           \* the body of the camera's DESCRIBE response, as lines
    videoTrackURL, \* Client.videoTrackURL
    setupURI,      \* the request target of the SETUP request sent
    sdPc           \* position of connect: "describe", "setup", "done"

sdVars == <<url, sdp, videoTrackURL, setupURI, sdPc>>

VARIABLES
    \* ---- the silence of the feed, as the read loop meets it ----
    quiet,         \* <<n>>: n read deadlines passed since the last forwarded
                   \* packet of this connection; << >>: not observed in this run
    readLoops      \* the go c.readLoop() statements executed

wdVars == <<quiet, readLoops>>

VARIABLES
    \* ---- Close of the components that expose it ----
    paStopCh,      \* panasonic Controller.stopCh is closed
    viConnOpen,    \* the connection of the VISCA controller is open
    panicked,      \* a goroutine panicked: the process is gone
    closeCalls,    \* [component -> calls of its Close made so far]
    closeRet       \* [component -> what its last Close returned]

clVars == <<paStopCh, viConnOpen, panicked, closeCalls, closeRet>>

VARIABLES
    \* ---- inbound messages of the viewers (internal/server) ----
    vMsg,          \* [viewer -> the message its readPump has read, or NoMsg]
    vOut,          \* [viewer -> Client.send, the outbound queue, oldest first]
    calls,         \* calls made to the PTZ controller and the media sessions
    inbound        \* messages the viewers may still send

msVars == <<vMsg, vOut, calls, inbound>>

VARIABLES
    \* ---- one call of a controller, from its argument to the wire ----
    encIn,         \* the call: [op |-> the method, n |-> its argument]
    encOut         \* what the call returned and put on the wire, or NoOut

encVars == <<encIn, encOut>>

VARIABLES
    \* ---- browser client (web/app.js) ----
    currentPTZ,    \* PTZClient.currentPTZ, in hundredths
    lastPTZ,       \* PTZClient.lastPTZ
    isMoving,      \* PTZClient.isMoving
    wsOut,         \* the messages handed to the WebSocket, oldest first
    brTicks        \* runs of the send loop's interval callback

brVars == <<currentPTZ, lastPTZ, isMoving, wsOut, brTicks>>

VARIABLES
    \* ---- history of the Panasonic controller, where it is observed ----
    paSubmitted,   \* [group -> the commands submitted by PanTilt, Zoom and Stop]
    paWire,        \* [group -> the commands handed to sendCommand, oldest first]
    \* ---- history of the RTSP client, where it is observed ----
    rtspOut,       \* the requests handed to conn.Write by sendRequest, in order
    rtspOpen,      \* the connections dialled and not closed by conn.Close()
    spawnedFor,    \* the reconnect goroutines started and not yet run: for each,
                   \* the connection whose error started it
    recFor         \* that connection, for the reconnect that passed the guard

obVars == <<paSubmitted, paWire, rtspOut, rtspOpen, spawnedFor, recFor>>

VARIABLES
    \* ---- the bytes of one upstream connection, as the read loop frames them ----
    upstream,      \* the bytes the camera sent that the reader has not handed out
    camFrames,     \* the interleaved frames the camera sent, in order
    framed         \* the interleaved frames the readLoop made of the bytes

srVars == <<upstream, camFrames, framed>>

(***************************************************************************)
(* Panasonic controller                                                    *)
(***************************************************************************)
Groups == {"panTilt", "zoom"}
PaCallers == {"s1", "s2"}

\* Normalized inputs in hundredths: 50 is 0.5.  A pan/tilt value is a pair.
PaInputs(g) == IF g = "panTilt" THEN {<<0, 0>>, <<50, 0>>, <<-100, 100>>}
               ELSE {0, 100}
Zero(g) == IF g = "panTilt" THEN <<0, 0>> ELSE 0

\* a send older than this is no longer in any window that is looked at
Horizon == minInterval + 1
NoCmd == [cmd |-> <<"none">>, by |-> "none"]

speedToValue(v) ==
    LET cv == IF v < -100 THEN -100 ELSE IF v > 100 THEN 100 ELSE v
    IN  IF cv > -5 /\ cv < 5 THEN 50
        \* int(50 + v*49): 50 + v*49 is positive, so truncation is floor
        ELSE (5000 + cv * 49) \div 100

\* The command string of a value: #PTS<pan><tilt>, #Z<zoom>
PaCmd(g, v) == IF g = "panTilt"
               THEN <<"PTS", speedToValue(v[1]), speedToValue(v[2])>>
               ELSE <<"Z", speedToValue(v)>>

\* sendCommand: one HTTP GET; its error is dropped by sendPanTiltCmd/sendZoomCmd
paSendCommand(g, v, who) ==
    /\ paLast' = [paLast EXCEPT ![g] = [cmd |-> PaCmd(g, v), by |-> who]]
    /\ paSendAges' = [paSendAges EXCEPT ![g] = Append(@, 0)]

\* a flush that sends the value last sent, and one that sends every time
FlushValue_Sent(g) == sent[g]
FlushSends_Always(g) == TRUE
\* flush: what it sends (nothing when pending = sent) and the new sent record
FlushSends(g) == pending[g] # sent[g]
FlushValue(g) == pending[g]

paFlush(g, who) ==
    IF FlushSends(g)
    THEN /\ paSendCommand(g, FlushValue(g), who)
         /\ sent' = [sent EXCEPT ![g] = FlushValue(g)]
    ELSE UNCHANGED <<paLast, paSendAges, sent>>

InitPana ==
    /\ pending = [g \in Groups |-> Zero(g)]
    /\ sent = [g \in Groups |-> Zero(g)]
    /\ sinceSend = [g \in Groups |-> minInterval]
    /\ timerRunning = [g \in Groups |-> FALSE]
    /\ timers = [g \in Groups |-> << >>]
    /\ paLast = [g \in Groups |-> NoCmd]
    /\ paSendAges = [g \in Groups |-> << >>]
    /\ paPc = [c \in PaCallers |-> "idle"]
    /\ paMine = [c \in PaCallers |-> << >>]

\* the calls a run may make
PaBudget(pt, z, st) ==
    paCalls = [k \in Groups \cup {"Stop"} |->
                 IF k = "panTilt" THEN pt ELSE IF k = "zoom" THEN z ELSE st]

TriggerPc(g) == IF g = "panTilt" THEN "trigger_pt" ELSE "trigger_zoom"

\* PanTilt / Zoom, the locked part: record pending, compare with sent
Changed(g, v) == v # sent[g]

PaSubmit(c, g, v) ==
    /\ paPc[c] = "idle"
    /\ paCalls[g] > 0
    /\ paCalls' = [paCalls EXCEPT ![g] = @ - 1]
    /\ pending' = [pending EXCEPT ![g] = v]
    /\ paPc' = [paPc EXCEPT ![c] = IF Changed(g, v) THEN TriggerPc(g) ELSE "idle"]
    /\ paMine' = [paMine EXCEPT ![c] = << >>]
    /\ UNCHANGED <<sent, sinceSend, timerRunning, timers, paLast, paSendAges>>

PanTilt(c) == \E v \in PaInputs("panTilt") : PaSubmit(c, "panTilt", v)
Zoom(c) == \E v \in PaInputs("zoom") : PaSubmit(c, "zoom", v)

\* throttle.trigger, called by PanTilt / Zoom when the value changed
TriggerImmediate(g) == sinceSend[g] >= minInterval
\* a trigger that schedules a deferred send whether or not one is scheduled
TriggerSchedules_Always(g) == TRUE
\* a trigger that never schedules the deferred send (the fixed-skip policy)
TriggerSchedules_Never(g) == FALSE
TriggerSchedules(g) == ~timerRunning[g]

paTrigger(c, g) ==
    /\ paPc[c] = TriggerPc(g)
    /\ paPc' = [paPc EXCEPT ![c] = "idle"]
    /\ IF TriggerImmediate(g)
       THEN /\ paFlush(g, "trigger")
            /\ sinceSend' = [sinceSend EXCEPT ![g] = 0]
            /\ paMine' = [paMine EXCEPT ![c] =
                            IF FlushSends(g) THEN Append(@, PaCmd(g, FlushValue(g))) ELSE @]
            /\ UNCHANGED <<timerRunning, timers>>
       ELSE IF TriggerSchedules(g)
       THEN /\ timerRunning' = [timerRunning EXCEPT ![g] = TRUE]
            /\ timers' = [timers EXCEPT ![g] = Append(@, minInterval - sinceSend[g])]
            /\ UNCHANGED <<sent, sinceSend, paLast, paSendAges, paMine>>
       ELSE UNCHANGED <<sent, sinceSend, timerRunning, timers, paLast, paSendAges,
                        paMine>>
    /\ UNCHANGED <<pending, paCalls>>

Trigger(c) == \E g \in Groups : paTrigger(c, g)

\* the deferred-send goroutine, after time.After(remaining) has fired
paTimerFire(g, i) ==
    /\ i \in 1..Len(timers[g])
    /\ timers[g][i] = 0
    /\ paFlush(g, "timer")
    /\ sinceSend' = [sinceSend EXCEPT ![g] = 0]
    /\ timerRunning' = [timerRunning EXCEPT ![g] = FALSE]
    /\ timers' = [timers EXCEPT ![g] =
                    SubSeq(@, 1, i - 1) \o SubSeq(@, i + 1, Len(@))]
    /\ UNCHANGED <<pending, paPc, paMine, paCalls>>

TimerFire == \E g \in Groups : \E i \in 1..Len(timers[g]) : paTimerFire(g, i)

\* Controller.Stop: two locked sections, then two sends outside the locks
StopBegin(c) ==
    /\ paPc[c] = "idle"
    /\ paCalls["Stop"] > 0
    /\ paCalls' = [paCalls EXCEPT !["Stop"] = @ - 1]
    /\ pending' = [pending EXCEPT !["panTilt"] = Zero("panTilt")]
    /\ sent' = [sent EXCEPT !["panTilt"] = Zero("panTilt")]
    /\ paPc' = [paPc EXCEPT ![c] = "stop_zoom"]
    /\ paMine' = [paMine EXCEPT ![c] = << >>]
    /\ UNCHANGED <<sinceSend, timerRunning, timers, paLast, paSendAges>>

StopZoom(c) ==
    /\ paPc[c] = "stop_zoom"
    /\ pending' = [pending EXCEPT !["zoom"] = 0]
    /\ sent' = [sent EXCEPT !["zoom"] = 0]
    /\ paPc' = [paPc EXCEPT ![c] = "stop_send_pt"]
    /\ UNCHANGED <<sinceSend, timerRunning, timers, paLast, paSendAges, paMine,
                   paCalls>>

StopSendPanTilt(c) ==
    /\ paPc[c] = "stop_send_pt"
    /\ paSendCommand("panTilt", Zero("panTilt"), "Stop")
    /\ paMine' = [paMine EXCEPT ![c] = Append(@, PaCmd("panTilt", Zero("panTilt")))]
    /\ paPc' = [paPc EXCEPT ![c] = "stop_send_zoom"]
    /\ UNCHANGED <<pending, sent, sinceSend, timerRunning, timers, paCalls>>

\* a Stop whose zoom stop honours the cooldown of the zoom throttle
StopSendZoom_Throttled(c) ==
    /\ paPc[c] = "stop_send_zoom"
    /\ IF sinceSend["zoom"] >= minInterval
       THEN /\ paSendCommand("zoom", 0, "Stop")
            /\ paMine' = [paMine EXCEPT ![c] = Append(@, PaCmd("zoom", 0))]
       ELSE UNCHANGED <<paLast, paSendAges, paMine>>
    /\ paPc' = [paPc EXCEPT ![c] = "stop_ret"]
    /\ UNCHANGED <<pending, sent, sinceSend, timerRunning, timers, paCalls>>

StopSendZoom(c) ==
    /\ paPc[c] = "stop_send_zoom"
    /\ paSendCommand("zoom", 0, "Stop")
    /\ paMine' = [paMine EXCEPT ![c] = Append(@, PaCmd("zoom", 0))]
    /\ paPc' = [paPc EXCEPT ![c] = "stop_ret"]
    /\ UNCHANGED <<pending, sent, sinceSend, timerRunning, timers, paCalls>>

StopReturn(c) ==
    /\ paPc[c] = "stop_ret"
    /\ paPc' = [paPc EXCEPT ![c] = "idle"]
    /\ UNCHANGED <<pending, sent, sinceSend, timerRunning, timers, paLast,
                   paSendAges, paMine, paCalls>>

\* one tick of time; a send leaves the log when it is Horizon ticks old
Aged(ages) == LET inc == [i \in 1..Len(ages) |-> ages[i] + 1]
              IN  SelectSeq(inc, LAMBDA a : a < Horizon)

PaTick ==
    /\ sinceSend' = [g \in Groups |-> Min(sinceSend[g] + 1, minInterval)]
    /\ timers' = [g \in Groups |->
                    [i \in 1..Len(timers[g]) |-> Max(timers[g][i] - 1, 0)]]
    /\ paSendAges' = [g \in Groups |-> Aged(paSendAges[g])]
    /\ UNCHANGED <<pending, sent, timerRunning, paLast, paPc, paMine, paCalls>>

(***************************************************************************)
(* VISCA controller, driven by the viewer sessions' readPumps              *)
(***************************************************************************)
ViSessions == {"v1", "v2"}
\* ptz_command payloads {pan, tilt, zoom} in hundredths, and ptz_stop
PTZCommand(pan, tilt, zoom) ==
    [type |-> "ptz_command", pan |-> pan, tilt |-> tilt, zoom |-> zoom]
PTZCommands == {PTZCommand(50, 0, 0), PTZCommand(-100, 50, 100)}
NoCommand == PTZCommand(0, 0, 0)
PTZStop == [type |-> "ptz_stop", pan |-> 0, tilt |-> 0, zoom |-> 0]

abs(x) == IF x < 0 THEN -x ELSE x
clampInt(v, lo, hi) == IF v < lo THEN lo ELSE IF v > hi THEN hi ELSE v

\* A value above MaxInput in magnitude stands for a float64 so large that
\* no int holds its product with a speed range (1e30, +Inf).
Huge == MaxInput + 1
IsHuge(x) == abs(x) > MaxInput
\* what int(...) yields for a float64 that no int holds: the Go
\* specification leaves the value to the implementation (amd64 gives the
\* smallest int, arm64 the largest)
IntExtreme == 2^30
\* int(x * k) for x >= 0 in hundredths: the values the build can produce
ToInt(x, k) == IF IsHuge(x) THEN {-IntExtreme, IntExtreme} ELSE {(x * k) \div 100}

\* Pan-Tilt Drive 01 06 01 VV WW XX YY, ps and ts being int(abs(pan)*24)
\* and int(abs(tilt)*20)
PanTiltEncode(pan, tilt, ps, ts) ==
    LET panSpeed == clampInt(ps, 1, 24)
        tiltSpeed == clampInt(ts, 1, 20)
        panDir == IF pan < -5 THEN 1 ELSE IF pan > 5 THEN 2 ELSE 3
        tiltDir == IF tilt > 5 THEN 1 ELSE IF tilt < -5 THEN 2 ELSE 3
    IN  <<1, 6, 1, IF panDir = 3 THEN 1 ELSE panSpeed,
          IF tiltDir = 3 THEN 1 ELSE tiltSpeed, panDir, tiltDir>>
PanTiltPayloads(pan, tilt) ==
    {PanTiltEncode(pan, tilt, ps, ts) : ps \in ToInt(abs(pan), 24),
                                        ts \in ToInt(abs(tilt), 20)}
\* the payload of values no larger than MaxInput
PanTiltPayload(pan, tilt) ==
    PanTiltEncode(pan, tilt, (abs(pan) * 24) \div 100, (abs(tilt) * 20) \div 100)

\* Zoom 01 04 07 XY: 0x2p tele, 0x3p wide, 0x00 stop, zs being
\* int(zoom*7) or int(abs(zoom)*7)
ZoomEncode(zoom, zs) ==
    LET cmd == IF zoom > 5 THEN 32 + clampInt(zs, 0, 7)
               ELSE IF zoom < -5 THEN 48 + clampInt(zs, 0, 7)
               ELSE 0
    IN  <<1, 4, 7, cmd>>
ZoomPayloads(zoom) == {ZoomEncode(zoom, zs) : zs \in ToInt(abs(zoom), 7)}
ZoomPayload(zoom) == ZoomEncode(zoom, (abs(zoom) * 7) \div 100)

PanTiltStopPayload == <<1, 6, 1, 1, 1, 3, 3>>
ZoomStopPayload == <<1, 4, 7, 0>>

addr == 1
SeqInc_Stuck(q) == q
\* c.seqNum++ on a uint32, kept as two 16-bit halves
SeqInc(q) == IF q.lo < 65535 THEN [q EXCEPT !.lo = @ + 1]
             ELSE [hi |-> (q.hi + 1) % 65536, lo |-> 0]
buildVISCAPayload(payload) == <<128 + addr>> \o payload \o <<255>>
buildVISCAOverIP(viscaPayload) ==
    LET n == Len(viscaPayload)
    IN  <<1, 0, n \div 256, n % 256,
          seqNum.hi \div 256, seqNum.hi % 256, seqNum.lo \div 256, seqNum.lo % 256>>
        \o viscaPayload

\* sendCommand: frame the payload and write it; a write error is dropped
viSendCommand(s, g, op, payload) ==
    LET frame == buildVISCAPayload(payload)
        packet == IF protocol = "udp" THEN buildVISCAOverIP(frame) ELSE frame
    IN  /\ viWire' = Append(viWire, [pkt |-> packet, g |-> g, op |-> op])
        /\ seqNum' = IF protocol = "udp" THEN SeqInc(seqNum) ELSE seqNum
        /\ viMine' = [viMine EXCEPT ![s] = Append(@, payload)]

InitVisca ==
    /\ protocol = "udp"
    /\ viSince = [g \in Groups |-> minInterval]
    /\ seqNum = [hi |-> 0, lo |-> 0]
    /\ viWire = << >>
    /\ viPc = [s \in ViSessions |-> "idle"]
    /\ viCmd = [s \in ViSessions |-> NoCommand]
    /\ viNowAge = [s \in ViSessions |-> 0]
    /\ viMine = [s \in ViSessions |-> << >>]
    /\ viHandled = [s \in ViSessions |-> << >>]
    /\ viOwed = [g \in Groups |-> FALSE]
    /\ viMsgs = MaxMsgs
    /\ viElapsed = 0

\* the rate limit of PanTilt and Zoom: skip when the last one is too recent
RateLimited(g) == viSince[g] < minInterval

\* readPump takes a ptz_command: handlePTZCommand calls PanTilt, which reads
\* the clock and lastPanTilt
ViPanTiltCheck(s) ==
    \E m \in PTZCommands :
        /\ viPc[s] = "idle"
        /\ viMsgs > 0
        /\ viMsgs' = viMsgs - 1
        /\ viHandled' = [viHandled EXCEPT ![s] = Append(@, m)]
        /\ viCmd' = [viCmd EXCEPT ![s] = m]
        /\ viMine' = [viMine EXCEPT ![s] = << >>]
        /\ viNowAge' = [viNowAge EXCEPT ![s] = 0]
        /\ IF RateLimited("panTilt")
           THEN /\ viPc' = [viPc EXCEPT ![s] = "zoom_check"]
                /\ viOwed' = [viOwed EXCEPT !["panTilt"] = TRUE]
           ELSE /\ viPc' = [viPc EXCEPT ![s] = "pt_set"]
                /\ UNCHANGED viOwed
        /\ UNCHANGED <<protocol, viSince, seqNum, viWire, viElapsed>>

\* c.lastPanTilt = now / c.lastZoom = now
ViSetLast(s, g, at, to) ==
    /\ viPc[s] = at
    /\ viSince' = [viSince EXCEPT ![g] = viNowAge[s]]
    /\ viPc' = [viPc EXCEPT ![s] = to]
    /\ UNCHANGED <<protocol, seqNum, viWire, viCmd, viNowAge, viMine, viHandled,
                   viOwed, viMsgs, viElapsed>>

ViPanTiltSet(s) == ViSetLast(s, "panTilt", "pt_set", "pt_send")
ViZoomSet(s) == ViSetLast(s, "zoom", "zoom_set", "zoom_send")

ViPanTiltSend(s) ==
    /\ viPc[s] = "pt_send"
    /\ viSendCommand(s, "panTilt", "PanTilt", PanTiltPayload(viCmd[s].pan, viCmd[s].tilt))
    /\ viOwed' = [viOwed EXCEPT !["panTilt"] = FALSE]
    /\ viPc' = [viPc EXCEPT ![s] = "zoom_check"]
    /\ UNCHANGED <<protocol, viSince, viCmd, viNowAge, viHandled, viMsgs, viElapsed>>

\* handlePTZCommand goes on to Zoom, which reads the clock and lastZoom
ViZoomCheck(s) ==
    /\ viPc[s] = "zoom_check"
    /\ viNowAge' = [viNowAge EXCEPT ![s] = 0]
    /\ IF RateLimited("zoom")
       THEN /\ viPc' = [viPc EXCEPT ![s] = "idle"]
            /\ viOwed' = [viOwed EXCEPT !["zoom"] = TRUE]
       ELSE /\ viPc' = [viPc EXCEPT ![s] = "zoom_set"]
            /\ UNCHANGED viOwed
    /\ UNCHANGED <<protocol, viSince, seqNum, viWire, viCmd, viMine, viHandled,
                   viMsgs, viElapsed>>

ViZoomSend(s) ==
    /\ viPc[s] = "zoom_send"
    /\ viSendCommand(s, "zoom", "Zoom", ZoomPayload(viCmd[s].zoom))
    /\ viOwed' = [viOwed EXCEPT !["zoom"] = FALSE]
    /\ viPc' = [viPc EXCEPT ![s] = "idle"]
    /\ UNCHANGED <<protocol, viSince, viCmd, viNowAge, viHandled, viMsgs, viElapsed>>

\* readPump takes a ptz_stop: Stop resets lastPanTilt, then lastZoom, then
\* sends the two stop commands
ViStopResetPanTilt(s) ==
    /\ viPc[s] = "idle"
    /\ viMsgs > 0
    /\ viMsgs' = viMsgs - 1
    /\ viHandled' = [viHandled EXCEPT ![s] = Append(@, PTZStop)]
    /\ viMine' = [viMine EXCEPT ![s] = << >>]
    /\ viSince' = [viSince EXCEPT !["panTilt"] = minInterval]
    /\ viPc' = [viPc EXCEPT ![s] = "stop_reset_zoom"]
    /\ UNCHANGED <<protocol, seqNum, viWire, viCmd, viNowAge, viOwed, viElapsed>>

ViStopResetZoom(s) ==
    /\ viPc[s] = "stop_reset_zoom"
    /\ viSince' = [viSince EXCEPT !["zoom"] = minInterval]
    /\ viPc' = [viPc EXCEPT ![s] = "stop_send_pt"]
    /\ UNCHANGED <<protocol, seqNum, viWire, viCmd, viNowAge, viMine, viHandled,
                   viOwed, viMsgs, viElapsed>>

ViStopSendPanTilt(s) ==
    /\ viPc[s] = "stop_send_pt"
    /\ viSendCommand(s, "panTilt", "Stop", PanTiltStopPayload)
    /\ viOwed' = [viOwed EXCEPT !["panTilt"] = FALSE]
    /\ viPc' = [viPc EXCEPT ![s] = "stop_send_zoom"]
    /\ UNCHANGED <<protocol, viSince, viCmd, viNowAge, viHandled, viMsgs, viElapsed>>

ViStopSendZoom(s) ==
    /\ viPc[s] = "stop_send_zoom"
    /\ viSendCommand(s, "zoom", "Stop", ZoomStopPayload)
    /\ viOwed' = [viOwed EXCEPT !["zoom"] = FALSE]
    /\ viPc' = [viPc EXCEPT ![s] = "stop_ret"]
    /\ UNCHANGED <<protocol, viSince, viCmd, viNowAge, viHandled, viMsgs, viElapsed>>

ViStopReturn(s) ==
    /\ viPc[s] = "stop_ret"
    /\ viPc' = [viPc EXCEPT ![s] = "idle"]
    /\ UNCHANGED <<protocol, viSince, seqNum, viWire, viCmd, viNowAge, viMine,
                   viHandled, viOwed, viMsgs, viElapsed>>

ViTick ==
    /\ viSince' = [g \in Groups |-> Min(viSince[g] + 1, minInterval)]
    /\ viNowAge' = [s \in ViSessions |-> Min(viNowAge[s] + 1, minInterval)]
    /\ viElapsed' = IF viHandled = [s \in ViSessions |-> << >>] THEN 0
                    ELSE Min(viElapsed + 1, minInterval)
    /\ UNCHANGED <<protocol, seqNum, viWire, viPc, viCmd, viMine, viHandled, viOwed,
                   viMsgs>>

(***************************************************************************)
(* RTSP ingestion client                                                   *)
(***************************************************************************)
\* An int64 is four 16-bit limbs, the least significant first.
\* 1 << k on an int64: 0 when k is 64 or more
Shl(k) == [i \in 1..4 |-> IF k < 64 /\ i - 1 = k \div 16 THEN 2 ^ (k % 16) ELSE 0]
Int64(n) == <<n, 0, 0, 0>>
\* x * c on an int64, wrapping, for a factor c below 2^15
MulSmall(x, c) ==
    LET p1 == x[1] * c
        p2 == x[2] * c + p1 \div 65536
        p3 == x[3] * c + p2 \div 65536
        p4 == x[4] * c + p3 \div 65536
    IN  <<p1 % 65536, p2 % 65536, p3 % 65536, p4 % 65536>>
\* x * time.Second: 10^9 is 1000 * 1000 * 1000
MulSecond(x) == MulSmall(MulSmall(MulSmall(x, 1000), 1000), 1000)
Seconds(n) == MulSecond(Int64(n))
Negative(x) == x[4] >= 32768
\* x > y on int64
Greater(x, y) ==
    IF Negative(x) # Negative(y) THEN Negative(y)
    ELSE \E i \in 1..4 : x[i] > y[i] /\ \A j \in (i + 1)..4 : x[j] = y[j]

Conns == 1..MaxConns
Handshake == <<"OPTIONS", "DESCRIBE", "SETUP", "PLAY">>
\* where a connect attempt fails: at the dial, at a request (an I/O error or
\* a status other than 200), or nowhere
FailPoints == {"dial", "OPTIONS", "DESCRIBE", "SETUP", "PLAY", "none"}
StepOf(m) == CHOOSE i \in 1..Len(Handshake) : Handshake[i] = m
\* the requests connect issues when it fails at f: each step returns at the
\* first error and connect goes no further
Issued(f) == IF f = "dial" THEN << >>
             ELSE IF f = "none" THEN Handshake
             ELSE SubSeq(Handshake, 1, StepOf(f))
NoAttempt == [by |-> "none", reqs |-> << >>, ok |-> FALSE, conn |-> 0]

\* a sendRequest that leaves the counter as it is
CSeqInc_Same(q) == q
\* sendRequest: c.cseq++
CSeqInc(q) == q + 1
\* the counter after the requests ms, each one call of sendRequest
RECURSIVE CSeqAfter(_, _)
CSeqAfter(ms, q) == IF ms = << >> THEN q ELSE CSeqAfter(Tail(ms), CSeqInc(q))

\* conn.Close() on a connection: data already buffered may still be read
\* from a connection that was playing
Closed(st) == IF st = "playing" THEN "closed" ELSE st

\* connect, under c.mu: dial, OPTIONS, DESCRIBE, SETUP, PLAY, connected = true
rcConnect(by, f) ==
    LET k == dialled + 1
    IN  /\ f # "dial" => dialled < MaxConns
        /\ f # "none" => refusals > 0
        /\ refusals' = IF f = "none" THEN refusals ELSE refusals - 1
        /\ dialled' = IF f = "dial" THEN dialled ELSE k
        /\ IF f = "dial"
           THEN /\ lastAttempt' = [by |-> by, reqs |-> << >>, ok |-> FALSE, conn |-> 0]
                /\ UNCHANGED <<conn, reader, cseq, session, connState, connected>>
           ELSE /\ conn' = k
                /\ reader' = k
                /\ cseq' = CSeqAfter(Issued(f), 0)
                /\ session' = IF f \in {"PLAY", "none"} THEN k ELSE 0
                /\ connState' = [connState EXCEPT ![k] =
                                    IF f = "none" THEN "playing" ELSE "failed"]
                /\ connected' = IF f = "none" THEN TRUE ELSE connected
                /\ lastAttempt' = [by |-> by, reqs |-> Issued(f), ok |-> f = "none",
                                   conn |-> k]

InitRtsp(r, f, n) ==
    /\ connected = FALSE
    /\ conn = 0
    /\ reader = 0
    /\ session = 0
    /\ cseq = 0
    /\ rtpChan = << >>
    /\ stopCh = FALSE
    /\ closed = FALSE
    /\ connState = [k \in Conns |-> "none"]
    /\ dialled = 0
    /\ lastAttempt = NoAttempt
    /\ rlPc = "none"
    /\ rlReader = 0
    /\ readLog = << >>
    /\ kaPc = "none"
    /\ recSpawned = 0
    /\ recPc = "none"
    /\ attempt = 0
    /\ recDelay = Int64(0)
    /\ feed = n
    /\ refusals = r
    /\ faults = f

\* the silence observed: n read deadlines in a row
Silence(n) == IF quiet = << >> THEN << >> ELSE <<n>>

\* Client.Connect: connect, and on success go c.readLoop() and
\* go c.keepaliveLoop(); rlPc and kaPc follow the first goroutine of each
\* kind
Connect ==
    /\ \E f \in FailPoints : rcConnect("Connect", f)
    /\ rlPc' = IF lastAttempt'.ok /\ rlPc = "none" THEN "top" ELSE rlPc
    /\ kaPc' = IF lastAttempt'.ok /\ kaPc = "none" THEN "wait" ELSE kaPc
    /\ readLoops' = IF lastAttempt'.ok THEN readLoops + 1 ELSE readLoops
    /\ quiet' = IF lastAttempt'.ok THEN Silence(0) ELSE quiet
    /\ UNCHANGED <<rtpChan, stopCh, closed, rlReader, readLog, recSpawned, recPc,
                   attempt, recDelay, feed, faults>>

\* Server.Start: NewClient, then Connect; a failure is logged as a warning and
\* the server goes on without the feed; on success Connect has started the
\* readLoop and the keepaliveLoop and Start starts broadcastRTP
StartConnect ==
    /\ srvPc = "init"
    /\ Connect
    /\ rtspClient' = lastAttempt'.ok
    /\ srvPc' = "serving"
    /\ UNCHANGED <<clients, vPc, vInit, vRtp, vGot, vFwd, vClosed, vStopRTP, vSend,
                   vWebrtc, vCloseCalls>>

\* go c.reconnect()
Spawn == /\ recSpawned < MaxSpawns
         /\ recSpawned' = recSpawned + 1

\* readLoop, top of the loop: stopCh, then the connected flag
RlTop ==
    /\ rlPc = "top"
    /\ rlPc' = IF stopCh THEN "done" ELSE IF connected THEN "capture" ELSE "top"
    /\ UNCHANGED <<connected, conn, reader, session, cseq, rtpChan, stopCh, closed,
                   connState, dialled, lastAttempt, rlReader, readLog, kaPc,
                   recSpawned, recPc, attempt, recDelay, feed, refusals,
                   faults>>
    /\ UNCHANGED hubVars
    /\ UNCHANGED wdVars

\* readLoop takes c.conn and c.reader under c.mu
RlCapture ==
    /\ rlPc = "capture"
    /\ IF conn = 0 \/ reader = 0
       THEN rlReader' = 0 /\ rlPc' = "top"
       ELSE rlReader' = reader /\ rlPc' = "read"
    /\ UNCHANGED <<connected, conn, reader, session, cseq, rtpChan, stopCh, closed,
                   connState, dialled, lastAttempt, readLog, kaPc, recSpawned,
                   recPc, attempt, recDelay, feed, refusals,
                   faults>>
    /\ UNCHANGED hubVars
    /\ UNCHANGED wdVars

\* every channel is forwarded
Forwarded_Any(ch) == TRUE
\* channel 0 is the video; every other channel is discarded
Forwarded(ch) == ch = 0
Packet(fr) == [conn |-> fr.conn, n |-> fr.n]

\* a publish queue that hands out the newest packet first
Publish_Front(fr) ==
    \/ /\ Len(rtpChan) < QueueCap
       /\ rtpChan' = <<Packet(fr)>> \o rtpChan
       /\ rlPc' = "top"
    \/ /\ stopCh
       /\ rlPc' = "done"
       /\ UNCHANGED rtpChan
    \/ /\ Len(rtpChan) >= QueueCap /\ ~stopCh
       /\ rlPc' = "top"
       /\ UNCHANGED rtpChan

\* the select that publishes a packet: into rtpChan when it has room, out of
\* the loop when stopCh is closed, else the packet is dropped
Publish(fr) ==
    \/ /\ Len(rtpChan) < QueueCap
       /\ rtpChan' = Append(rtpChan, Packet(fr))
       /\ rlPc' = "top"
    \/ /\ stopCh
       /\ rlPc' = "done"
       /\ UNCHANGED rtpChan
    \/ /\ Len(rtpChan) >= QueueCap /\ ~stopCh
       /\ rlPc' = "top"
       /\ UNCHANGED rtpChan

\* the connections the captured reader reads from
ReadSource == rlReader

\* readLoop reads one interleaved frame from the captured reader
RlReadFrame ==
    /\ rlPc = "read"
    /\ connState[ReadSource] \in {"playing", "closed"}
    /\ feed > 0
    /\ feed' = feed - 1
    /\ \E ch \in {0, 1} :
         LET fr == [ch |-> ch, conn |-> ReadSource, n |-> Len(readLog) + 1]
         IN  /\ readLog' = Append(readLog, fr)
             /\ IF Forwarded(ch) THEN Publish(fr)
                ELSE rlPc' = "top" /\ UNCHANGED rtpChan
             /\ quiet' = IF Forwarded(ch) /\ rtpChan' # rtpChan THEN Silence(0) ELSE quiet
    /\ UNCHANGED readLoops
    /\ UNCHANGED <<connected, conn, reader, session, cseq, stopCh, closed,
                   connState, dialled, lastAttempt, rlReader, kaPc, recSpawned,
                   recPc, attempt, recDelay, refusals,
                   faults>>
    /\ UNCHANGED hubVars

\* the read deadline of 5 s passes with nothing read, or the four bytes read
\* are no frame header
RlReadNothing ==
    /\ rlPc = "read"
    /\ connState[rlReader] = "playing"
    /\ rlPc' = "top"
    /\ \E deadline \in BOOLEAN :
          quiet' = IF deadline /\ quiet # << >>
                   THEN Silence(Min(quiet[1] + 1, MaxQuiet)) ELSE quiet
    /\ UNCHANGED readLoops
    /\ UNCHANGED <<connected, conn, reader, session, cseq, rtpChan, stopCh, closed,
                   connState, dialled, lastAttempt, rlReader, readLog, kaPc,
                   recSpawned, recPc, attempt, recDelay, feed, refusals,
                   faults>>
    /\ UNCHANGED hubVars

\* the read fails: the connection was closed here, or it breaks now
RlReadError ==
    /\ rlPc = "read"
    /\ \/ /\ connState[rlReader] # "playing"
          /\ UNCHANGED <<connState, faults>>
       \/ /\ connState[rlReader] = "playing"
          /\ faults > 0
          /\ faults' = faults - 1
          /\ connState' = [connState EXCEPT ![rlReader] = "broken"]
    /\ IF stopCh
       THEN rlPc' = "done" /\ UNCHANGED recSpawned
       ELSE rlPc' = "top" /\ Spawn
    /\ UNCHANGED <<connected, conn, reader, session, cseq, rtpChan, stopCh, closed,
                   dialled, lastAttempt, rlReader, readLog, kaPc, recPc, attempt,
                   recDelay, feed, refusals>>
    /\ UNCHANGED hubVars
    /\ UNCHANGED wdVars

\* keepaliveLoop: stopCh or the ticker; on a tick, the connected flag
KaTick ==
    /\ kaPc = "wait"
    /\ \/ stopCh /\ kaPc' = "done"
       \/ kaPc' = IF connected THEN "send" ELSE "wait"
    /\ UNCHANGED <<connected, conn, reader, session, cseq, rtpChan, stopCh, closed,
                   connState, dialled, lastAttempt, rlPc, rlReader, readLog,
                   recSpawned, recPc, attempt, recDelay, feed, refusals,
                   faults>>
    /\ UNCHANGED hubVars
    /\ UNCHANGED wdVars

\* keepaliveLoop, under c.mu: GET_PARAMETER on the connection, if there is one
\* with a session; a failed request starts a reconnect.  The request fails on
\* a connection that is closed or broken, when the connection breaks, and
\* when sendRequest reads no well-formed response in time on a connection
\* that stays up: it reads the response from c.reader, the reader the
\* readLoop reads the interleaved frames from without holding c.mu, so the
\* bytes it takes for the status line may be a frame's, and the response may
\* go to the readLoop
KaSend ==
    /\ kaPc = "send"
    /\ kaPc' = "wait"
    /\ IF conn = 0 \/ session = 0
       THEN UNCHANGED <<cseq, connState, faults, recSpawned>>
       ELSE /\ cseq < MaxCSeq
            /\ cseq' = CSeqInc(cseq)
            /\ \/ /\ connState[conn] = "playing"
                  /\ UNCHANGED <<connState, faults, recSpawned>>
               \/ /\ connState[conn] # "playing"
                  /\ Spawn
                  /\ UNCHANGED <<connState, faults>>
               \/ /\ connState[conn] = "playing"
                  /\ faults > 0
                  /\ faults' = faults - 1
                  /\ \E st \in {"playing", "broken"} :
                        connState' = [connState EXCEPT ![conn] = st]
                  /\ Spawn
    /\ UNCHANGED <<connected, conn, reader, session, rtpChan, stopCh, closed,
                   dialled, lastAttempt, rlPc, rlReader, readLog, recPc, attempt,
                   recDelay, feed, refusals>>
    /\ UNCHANGED hubVars
    /\ UNCHANGED wdVars

\* reconnect, the guard under reconnectMu: only a connected client reconnects
RecGuard ==
    /\ recSpawned > 0
    /\ recSpawned' = recSpawned - 1
    /\ IF connected
       THEN connected' = FALSE /\ recPc' = "close"
       ELSE UNCHANGED <<connected, recPc>>
    /\ UNCHANGED <<conn, reader, session, cseq, rtpChan, stopCh, closed, connState,
                   dialled, lastAttempt, rlPc, rlReader, readLog, kaPc, attempt,
                   recDelay, feed, refusals,
                   faults>>
    /\ UNCHANGED hubVars
    /\ UNCHANGED wdVars

\* reconnect closes the old connection under c.mu and enters the retry loop
RecCloseOld ==
    /\ recPc = "close"
    /\ IF conn # 0
       THEN /\ connState' = [connState EXCEPT ![conn] = Closed(@)]
            /\ conn' = 0
       ELSE UNCHANGED <<connState, conn>>
    /\ attempt' = 1
    /\ recPc' = "backoff"
    /\ UNCHANGED <<connected, reader, session, cseq, rtpChan, stopCh, closed,
                   dialled, lastAttempt, rlPc, rlReader, readLog, kaPc, recSpawned,
                   recDelay, feed, refusals,
                   faults>>
    /\ UNCHANGED hubVars
    /\ UNCHANGED wdVars

\* time.Duration(1<<uint(attempt-1)) * time.Second, at most 30 s
Delay(a) ==
    LET delay == MulSecond(Shl(a - 1))
    IN  IF Greater(delay, Seconds(30)) THEN Seconds(30) ELSE delay

\* the retry loop: stopCh, then the delay of this attempt
RecBackoff ==
    /\ recPc = "backoff"
    /\ IF stopCh
       THEN recPc' = "none" /\ UNCHANGED recDelay
       ELSE recPc' = "sleep" /\ recDelay' = Delay(attempt)
    /\ UNCHANGED <<connected, conn, reader, session, cseq, rtpChan, stopCh, closed,
                   connState, dialled, lastAttempt, rlPc, rlReader, readLog, kaPc,
                   recSpawned, attempt, feed, refusals,
                   faults>>
    /\ UNCHANGED hubVars
    /\ UNCHANGED wdVars

\* the sleep is over: stopCh again
RecWake ==
    /\ recPc = "sleep"
    /\ recPc' = IF stopCh THEN "none" ELSE "connect"
    /\ UNCHANGED <<connected, conn, reader, session, cseq, rtpChan, stopCh, closed,
                   connState, dialled, lastAttempt, rlPc, rlReader, readLog, kaPc,
                   recSpawned, attempt, recDelay, feed, refusals,
                   faults>>
    /\ UNCHANGED hubVars
    /\ UNCHANGED wdVars

\* the attempt: on failure the next one, on success reconnect returns
RecConnect ==
    /\ recPc = "connect"
    /\ \E f \in FailPoints : rcConnect("reconnect", f)
    /\ IF lastAttempt'.ok
       THEN recPc' = "none" /\ UNCHANGED attempt
       ELSE recPc' = "backoff" /\ attempt' = attempt + 1
    /\ quiet' = IF lastAttempt'.ok THEN Silence(0) ELSE quiet
    /\ UNCHANGED readLoops
    /\ UNCHANGED <<rtpChan, stopCh, closed, rlPc, rlReader, readLog, kaPc,
                   recSpawned, recDelay, feed, faults>>
    /\ UNCHANGED hubVars

\* Client.Close, under c.mu: once; stopCh, TEARDOWN, conn.Close
rcClose ==
    IF closed
    THEN UNCHANGED <<closed, stopCh, cseq, connState>>
    ELSE /\ closed' = TRUE
         /\ stopCh' = TRUE
         /\ IF conn # 0
            THEN /\ cseq' = CSeqInc(cseq)
                 /\ connState' = [connState EXCEPT ![conn] = Closed(@)]
            ELSE UNCHANGED <<cseq, connState>>

(***************************************************************************)
(* Relay hub and viewer sessions                                           *)
(***************************************************************************)
Viewers == {"w1", "w2"}

\* V: the viewers that connect in the run
InitHub(V) ==
    /\ srvPc = "init"
    /\ rtspClient = FALSE
    /\ clients = {}
    /\ vPc = [v \in Viewers |-> IF v \in V THEN "new" ELSE "absent"]
    /\ vInit = [v \in Viewers |-> FALSE]
    /\ vRtp = [v \in Viewers |-> << >>]
    /\ vGot = [v \in Viewers |-> << >>]
    /\ vFwd = [v \in Viewers |-> "none"]
    /\ vClosed = [v \in Viewers |-> FALSE]
    /\ vStopRTP = [v \in Viewers |-> 0]
    /\ vSend = [v \in Viewers |-> 0]
    /\ vWebrtc = [v \in Viewers |-> "none"]
    /\ vCloseCalls = [v \in Viewers |-> 0]

\* handleWebSocket: the viewer is registered and its pumps are started
Accept(v) ==
    /\ srvPc # "init"
    /\ vPc[v] = "new"
    /\ clients' = clients \cup {v}
    /\ vPc' = [vPc EXCEPT ![v] = "running"]
    /\ UNCHANGED <<srvPc, rtspClient, vInit, vRtp, vGot, vFwd, vClosed, vStopRTP,
                   vSend, vWebrtc, vCloseCalls>>
    /\ UNCHANGED rcVars
    /\ UNCHANGED wdVars

\* handleWebSocket goes on to initWebRTC: the media session is stored, and
\* when the track and the offer succeed forwardRTP is started
InitWebRTC(v) ==
    /\ vPc[v] # "new"
    /\ ~vInit[v]
    /\ vInit' = [vInit EXCEPT ![v] = TRUE]
    /\ \E out \in {"ok", "no_session", "no_offer"} :
         /\ vWebrtc' = [vWebrtc EXCEPT ![v] = IF out = "no_session" THEN @ ELSE "open"]
         /\ vFwd' = [vFwd EXCEPT ![v] = IF out = "ok" /\ rtspClient THEN "running" ELSE @]
    /\ UNCHANGED <<srvPc, rtspClient, clients, vPc, vRtp, vGot, vClosed, vStopRTP,
                   vSend, vCloseCalls>>
    /\ UNCHANGED rcVars
    /\ UNCHANGED wdVars

\* the non-blocking send of broadcastRTP to one viewer's queue
CanEnqueue(v) == Len(vRtp[v]) < QueueCap

\* a broadcast whose send to a viewer's queue blocks while the queue is full
Broadcast_Blocking ==
    /\ rtspClient
    /\ rtpChan # << >>
    /\ \A v \in clients : CanEnqueue(v)
    /\ rtpChan' = Tail(rtpChan)
    /\ vRtp' = [v \in Viewers |->
                  IF v \in clients THEN Append(vRtp[v], Head(rtpChan)) ELSE vRtp[v]]
    /\ vGot' = [v \in Viewers |->
                  IF v \in clients THEN Append(vGot[v], Head(rtpChan)) ELSE vGot[v]]
    /\ UNCHANGED <<srvPc, rtspClient, clients, vPc, vInit, vFwd, vClosed, vStopRTP,
                   vSend, vWebrtc, vCloseCalls>>
    /\ UNCHANGED <<connected, conn, reader, session, cseq, stopCh, closed, connState,
                   dialled, lastAttempt, rlPc, rlReader, readLog, kaPc, recSpawned,
                   recPc, attempt, recDelay, feed, refusals, faults>>
    /\ UNCHANGED wdVars

\* broadcastRTP, one packet, under clientsMu.RLock
Broadcast ==
    /\ rtspClient
    /\ rtpChan # << >>
    /\ rtpChan' = Tail(rtpChan)
    /\ vRtp' = [v \in Viewers |->
                  IF v \in clients /\ CanEnqueue(v) THEN Append(vRtp[v], Head(rtpChan))
                  ELSE vRtp[v]]
    /\ vGot' = [v \in Viewers |->
                  IF v \in clients /\ CanEnqueue(v) THEN Append(vGot[v], Head(rtpChan))
                  ELSE vGot[v]]
    /\ UNCHANGED <<srvPc, rtspClient, clients, vPc, vInit, vFwd, vClosed, vStopRTP,
                   vSend, vWebrtc, vCloseCalls>>
    /\ UNCHANGED <<connected, conn, reader, session, cseq, stopCh, closed, connState,
                   dialled, lastAttempt, rlPc, rlReader, readLog, kaPc, recSpawned,
                   recPc, attempt, recDelay, feed, refusals,
                   faults>>
    /\ UNCHANGED wdVars

\* forwardRTP: stopRTP, or the next packet of the queue written to the track
Forward(v) ==
    /\ vFwd[v] = "running"
    /\ \/ /\ vStopRTP[v] > 0
          /\ vFwd' = [vFwd EXCEPT ![v] = "exited"]
          /\ UNCHANGED vRtp
       \/ /\ vRtp[v] # << >>
          /\ vRtp' = [vRtp EXCEPT ![v] = Tail(@)]
          /\ \E written \in BOOLEAN :
               vFwd' = [vFwd EXCEPT ![v] = IF written THEN "running" ELSE "exited"]
    /\ UNCHANGED <<srvPc, rtspClient, clients, vPc, vInit, vGot, vClosed, vStopRTP,
                   vSend, vWebrtc, vCloseCalls>>
    /\ UNCHANGED rcVars
    /\ UNCHANGED wdVars

\* a Close without the closed flag
Closes_Always(v) == TRUE
\* Client.Close, under c.mu: the closed flag makes every call but the first
\* return at once
Closes(v) == ~vClosed[v]

\* Close called on each viewer of S
ClientClose(S) ==
    /\ vCloseCalls' = [v \in Viewers |-> IF v \in S THEN vCloseCalls[v] + 1
                                         ELSE vCloseCalls[v]]
    /\ vClosed' = [v \in Viewers |-> v \in S \/ vClosed[v]]
    /\ vStopRTP' = [v \in Viewers |-> IF v \in S /\ Closes(v) THEN vStopRTP[v] + 1
                                      ELSE vStopRTP[v]]
    /\ vWebrtc' = [v \in Viewers |->
                     IF v \in S /\ Closes(v) /\ vWebrtc[v] = "open" THEN "closed"
                     ELSE vWebrtc[v]]
    /\ vSend' = [v \in Viewers |-> IF v \in S /\ Closes(v) THEN vSend[v] + 1
                                   ELSE vSend[v]]

\* readPump returns (the viewer left, or its connection was closed): the
\* deferred function takes the viewer off the registry ...
ReadPumpExit(v) ==
    /\ vPc[v] = "running"
    /\ clients' = clients \ {v}
    /\ vPc' = [vPc EXCEPT ![v] = "closing"]
    /\ UNCHANGED <<srvPc, rtspClient, vInit, vRtp, vGot, vFwd, vClosed, vStopRTP,
                   vSend, vWebrtc, vCloseCalls>>
    /\ UNCHANGED rcVars
    /\ UNCHANGED wdVars

\* ... and then closes it
ReadPumpClose(v) ==
    /\ vPc[v] = "closing"
    /\ ClientClose({v})
    /\ vPc' = [vPc EXCEPT ![v] = "gone"]
    /\ UNCHANGED <<srvPc, rtspClient, clients, vInit, vRtp, vGot, vFwd>>
    /\ UNCHANGED rcVars
    /\ UNCHANGED wdVars

\* Server.Stop: every registered viewer is closed under clientsMu ...
ServerStop ==
    /\ srvPc = "serving"
    /\ ClientClose(clients)
    /\ srvPc' = "stopping"
    /\ UNCHANGED <<rtspClient, clients, vPc, vInit, vRtp, vGot, vFwd>>
    /\ UNCHANGED rcVars
    /\ UNCHANGED wdVars

\* ... then the RTSP client, if there is one
ServerStopRtsp ==
    /\ srvPc = "stopping"
    /\ IF rtspClient THEN rcClose ELSE UNCHANGED <<closed, stopCh, cseq, connState>>
    /\ srvPc' = "stopped"
    /\ UNCHANGED <<rtspClient, clients, vPc, vInit, vRtp, vGot, vFwd, vClosed,
                   vStopRTP, vSend, vWebrtc, vCloseCalls>>
    /\ UNCHANGED <<connected, conn, reader, session, rtpChan, dialled, lastAttempt,
                   rlPc, rlReader, readLog, kaPc, recSpawned, recPc, attempt,
                   recDelay, feed, refusals,
                   faults>>
    /\ UNCHANGED wdVars

(***************************************************************************)
(* RTSP session description: the control URL of the video track            *)
(***************************************************************************)
\* strings are sequences of characters
HasPrefix(s, p) == Len(s) >= Len(p) /\ SubSeq(s, 1, Len(p)) = p
HasSuffix(s, p) == Len(s) >= Len(p) /\ SubSeq(s, Len(s) - Len(p) + 1, Len(s)) = p
TrimPrefix(s, p) == IF HasPrefix(s, p) THEN SubSeq(s, Len(p) + 1, Len(s)) ELSE s
RECURSIVE TrimLeft(_)
TrimLeft(s) == IF s # << >> /\ Head(s) = " " THEN TrimLeft(Tail(s)) ELSE s
RECURSIVE TrimRight(_)
TrimRight(s) == IF s # << >> /\ s[Len(s)] = " " THEN TrimRight(SubSeq(s, 1, Len(s) - 1))
                ELSE s
TrimSpace(s) == TrimRight(TrimLeft(s))

RtspScheme == <<"r", "t", "s", "p", ":", "/", "/">>
MediaPrefix == <<"m", "=">>
VideoPrefix == <<"m", "=", "v", "i", "d", "e", "o">>
ControlPrefix == <<"a", "=", "c", "o", "n", "t", "r", "o", "l", ":">>
Star == <<"*">>
Slash == <<"/">>

\* the URLs the client is configured with: rtsp://h/s and rtsp://h/s/
BaseURLs == {RtspScheme \o <<"h", "/", "s">>, RtspScheme \o <<"h", "/", "s", "/">>}
\* values of a=control: track1, *, rtsp://x, a padded " t1 ", and the empty one
ControlValues == {<<"t", "r", "a", "c", "k", "1">>, Star, RtspScheme \o <<"x">>,
                  <<" ", "t", "1", " ">>, << >>}
\* the lines a session description is made of
SdpLines == {VideoPrefix \o <<" ", "0">>, <<"m", "=", "a", "u", "d", "i", "o">>,
             <<" ">> \o VideoPrefix}
            \cup {ControlPrefix \o c : c \in ControlValues}
SeqsUpTo(S, n) == UNION {[1..k -> S] : k \in 0..n}

\* the relative case: the separator is inserted only if the base has none
Joined_AlwaysSlash(baseURL, control) == baseURL \o Slash \o control
Joined(baseURL, control) ==
    IF HasSuffix(baseURL, Slash) THEN baseURL \o control
    ELSE baseURL \o Slash \o control

\* the three cases of the first loop of parseSDPForVideoTrack
ControlURL(baseURL, control) ==
    IF HasPrefix(control, RtspScheme) THEN control
    ELSE IF control = Star THEN baseURL
    ELSE Joined(baseURL, control)

\* the cases of the fallback loop: the wildcard leaves the URL empty
SessionControlURL(baseURL, control) ==
    IF HasPrefix(control, RtspScheme) THEN control
    ELSE IF control # Star THEN Joined(baseURL, control)
    ELSE << >>

\* the first loop: the first a=control line met while in a video section
RECURSIVE VideoLoop(_, _, _)
VideoLoop(lines, inVideoSection, baseURL) ==
    IF lines = << >> THEN << >>
    ELSE LET line == TrimSpace(Head(lines))
         IN  IF HasPrefix(line, VideoPrefix) THEN VideoLoop(Tail(lines), TRUE, baseURL)
             ELSE IF HasPrefix(line, MediaPrefix) THEN VideoLoop(Tail(lines), FALSE, baseURL)
             ELSE IF inVideoSection /\ HasPrefix(line, ControlPrefix)
                  THEN ControlURL(baseURL, TrimSpace(TrimPrefix(line, ControlPrefix)))
             ELSE VideoLoop(Tail(lines), inVideoSection, baseURL)

\* the fallback loop: the first a=control line of the description
RECURSIVE SessionLoop(_, _)
SessionLoop(lines, baseURL) ==
    IF lines = << >> THEN << >>
    ELSE LET line == TrimSpace(Head(lines))
         IN  IF HasPrefix(line, ControlPrefix)
             THEN SessionControlURL(baseURL, TrimSpace(TrimPrefix(line, ControlPrefix)))
             ELSE SessionLoop(Tail(lines), baseURL)

parseSDPForVideoTrack(body, baseURL) ==
    LET controlURL == VideoLoop(body, FALSE, baseURL)
    IN  IF controlURL = << >> THEN SessionLoop(body, baseURL) ELSE controlURL

\* U: the configured URLs, S: the descriptions the camera may answer with
InitDescribe(U, S) ==
    /\ url \in U
    /\ sdp \in S
    /\ videoTrackURL = << >>
    /\ setupURI = << >>
    /\ sdPc = "describe"

\* describe, answered with status 200 and the description as its body
Describe ==
    /\ sdPc = "describe"
    /\ videoTrackURL' = LET parsed == parseSDPForVideoTrack(sdp, url)
                        IN  IF parsed = << >> THEN url ELSE parsed
    /\ sdPc' = "setup"
    /\ UNCHANGED <<url, sdp, setupURI>>

\* setup: the SETUP request goes to the video track URL
Setup ==
    /\ sdPc = "setup"
    /\ setupURI' = IF videoTrackURL = << >> THEN url ELSE videoTrackURL
    /\ sdPc' = "done"
    /\ UNCHANGED <<url, sdp, videoTrackURL>>

(***************************************************************************)
(* Inbound messages of a viewer: readPump, handleMessage, sendMessage      *)
(***************************************************************************)
\* the types handleMessage has a case for, and one it has none for
KnownTypes == {"ping", "answer", "ice_candidate", "ptz_command", "ptz_stop",
               "ptz_preset"}
Types == KnownTypes \cup {"bogus"}
\* the types whose case calls ParsePayload
ParsedTypes == KnownTypes \ {"ptz_stop"}

\* The payload of an envelope, by the JSON value it holds: an object with
\* the fields of the type, null, or a value that does not fit the struct of
\* the type (no object, an object with a field of the wrong kind, or no
\* payload at all).
Payloads == {"object", "null", "mismatch"}

\* Message.ParsePayload, json.Unmarshal into the payload struct: it fails on
\* an empty input and on a value that does not fit the struct; null is
\* accepted and leaves the struct at its zero value
ParseFails(p) == p = "mismatch"

\* what a viewer may send: data json.Unmarshal rejects as an envelope, or
\* an envelope
NoMsg == [env |-> "none", type |-> "", payload |-> ""]
Inbound == {[env |-> "bad", type |-> "", payload |-> ""]}
           \cup {[env |-> "ok", type |-> t, payload |-> p] : t \in Types, p \in Payloads}

InvalidMessage == <<"error", "INVALID_MESSAGE">>

\* n: the messages the viewers send in the run
InitMessages(n) ==
    /\ vMsg = [v \in Viewers |-> NoMsg]
    /\ vOut = [v \in Viewers |-> << >>]
    /\ calls = << >>
    /\ inbound = n

\* readPump: ReadMessage returns the next message of the viewer
Receive(v) ==
    /\ ~panicked
    /\ vPc[v] = "running"
    /\ inbound > 0
    /\ inbound' = inbound - 1
    /\ \E m \in Inbound : vMsg' = [vMsg EXCEPT ![v] = m]
    /\ vPc' = [vPc EXCEPT ![v] = "handling"]
    /\ UNCHANGED <<vOut, calls, panicked>>
    /\ UNCHANGED <<srvPc, rtspClient, clients, vInit, vRtp, vGot, vFwd, vClosed,
                   vStopRTP, vSend, vWebrtc, vCloseCalls>>

\* sendMessage, once for each message of ms: the non-blocking send to
\* c.send; a send to a closed channel panics, a full queue drops the message
SendPanics(v) == vSend[v] > 0
RECURSIVE Enqueue(_, _)
Enqueue(q, ms) ==
    IF ms = << >> THEN q
    ELSE Enqueue(IF Len(q) < SendCap THEN Append(q, Head(ms)) ELSE q, Tail(ms))
SendMessages(v, ms) ==
    IF SendPanics(v)
    THEN panicked' = TRUE /\ UNCHANGED vOut
    ELSE /\ vOut' = [vOut EXCEPT ![v] = Enqueue(@, ms)]
         /\ UNCHANGED panicked
SendMessage(v, m) == SendMessages(v, <<m>>)

\* handleWebSocket after the pumps are started: sendStatus, then initWebRTC,
\* which sends the offer when the session, the track and the offer succeed
HandleWebSocket(v) ==
    /\ ~panicked
    /\ vPc[v] # "new"
    /\ ~vInit[v]
    /\ vInit' = [vInit EXCEPT ![v] = TRUE]
    /\ \E out \in {"ok", "no_session", "no_offer"} :
         /\ vWebrtc' = [vWebrtc EXCEPT ![v] = IF out = "no_session" THEN @ ELSE "open"]
         /\ vFwd' = [vFwd EXCEPT ![v] = IF out = "ok" /\ rtspClient THEN "running" ELSE @]
         /\ SendMessages(v, IF out = "ok" THEN << <<"status">>, <<"offer">> >>
                                          ELSE << <<"status">> >>)
    /\ UNCHANGED <<srvPc, rtspClient, clients, vPc, vRtp, vGot, vClosed, vStopRTP,
                   vSend, vCloseCalls>>
    /\ UNCHANGED <<vMsg, calls, inbound>>

\* the call a handled message makes, if any: handlePTZCommand,
\* handlePTZPreset with the action of the payload, the media session of the
\* viewer if it has one
CallsOf(v, m, action) ==
    CASE m.type = "ptz_command" -> << <<v, "PanTilt">>, <<v, "Zoom">> >>
      [] m.type = "ptz_stop" -> << <<v, "Stop">> >>
      [] m.type = "ptz_preset" ->
            IF action = "recall" THEN << <<v, "RecallPreset">> >>
            ELSE IF action = "save" THEN << <<v, "SavePreset">> >>
            ELSE << >>
      [] m.type = "answer" ->
            IF vWebrtc[v] = "open" THEN << <<v, "SetAnswer">> >> ELSE << >>
      [] m.type = "ice_candidate" ->
            IF vWebrtc[v] = "open" THEN << <<v, "AddICECandidate">> >> ELSE << >>
      [] OTHER -> << >>

\* handleMessage, and the return to ReadMessage
HandleMessage(v) ==
    /\ ~panicked
    /\ vPc[v] = "handling"
    /\ LET m == vMsg[v]
       IN  IF m.env = "bad"
           THEN SendMessage(v, InvalidMessage) /\ UNCHANGED calls
           ELSE IF m.type \in ParsedTypes /\ ParseFails(m.payload)
           THEN UNCHANGED <<vOut, calls, panicked>>
           ELSE IF m.type = "ping"
           THEN SendMessage(v, <<"pong">>) /\ UNCHANGED calls
           ELSE /\ \E action \in {"recall", "save", ""} :
                     calls' = calls \o CallsOf(v, m, action)
                /\ UNCHANGED <<vOut, panicked>>
    /\ vMsg' = [vMsg EXCEPT ![v] = NoMsg]
    /\ vPc' = [vPc EXCEPT ![v] = "running"]
    /\ UNCHANGED inbound
    /\ UNCHANGED <<srvPc, rtspClient, clients, vInit, vRtp, vGot, vFwd, vClosed,
                   vStopRTP, vSend, vWebrtc, vCloseCalls>>

\* writePump takes the next message of c.send and writes it to the viewer
WritePump(v) ==
    /\ vOut[v] # << >>
    /\ vOut' = [vOut EXCEPT ![v] = Tail(@)]
    /\ UNCHANGED <<vMsg, calls, inbound>>

(***************************************************************************)
(* One call of a controller: presets, and the encoding of an axis value    *)
(***************************************************************************)
\* a call: the operation, its argument, and whether the camera takes the
\* write (up) or the write fails
NoCall == [op |-> "none", n |-> 0, up |-> TRUE]
\* what a call returned ("nil", a validation error, the error of the send)
\* and what it handed to the transport
NoOut == [err |-> "nil", wire |-> << >>]

\* the calls a run may start with: C is the set to draw the call from
InitCall(C) ==
    /\ encIn \in C
    /\ encOut = NoOut

PresetOps == {"RecallPreset", "SavePreset"}
PresetCalls == {[op |-> o, n |-> k, up |-> u] : o \in PresetOps,
                                      k \in (-MaxPresetInput)..MaxPresetInput,
                                      u \in BOOLEAN}
AxisCalls == {[op |-> "PanTiltZoom", n |-> k, up |-> u] : k \in (-Huge)..Huge,
                                                        u \in BOOLEAN}
StopCalls == {[op |-> "Stop", n |-> 0, up |-> u] : u \in BOOLEAN}

\* the range check of RecallPreset and SavePreset
PresetInRange_Any(variant, n) == TRUE
PresetInRange(variant, n) ==
    IF variant = "visca" THEN ~(n < 0 \/ n > 255) ELSE ~(n < 0 \/ n > 99)

\* byte(preset): the low eight bits
Byte(n) == n % 256
\* VISCA Memory Recall 01 04 3F 02 pp, Memory Set 01 04 3F 01 pp
PresetPayload(op, n) == <<1, 4, 63, IF op = "RecallPreset" THEN 2 ELSE 1, Byte(n)>>

\* fmt.Sprintf("%02d", n): the decimal digits, at least two characters
DigitChars == <<"0", "1", "2", "3", "4", "5", "6", "7", "8", "9">>
RECURSIVE Dec(_)
Dec(n) == IF n < 10 THEN <<DigitChars[n + 1]>>
          ELSE Append(Dec(n \div 10), DigitChars[(n % 10) + 1])
Fmt02d(n) == IF n < 0 THEN <<"-">> \o Dec(-n)
             ELSE IF n < 10 THEN <<"0">> \o Dec(n)
             ELSE Dec(n)
\* the Panasonic commands #Rnn and #Mnn
PresetCmd(op, n) == <<"#", IF op = "RecallPreset" THEN "R" ELSE "M">> \o Fmt02d(n)

\* visca RecallPreset / SavePreset: the range check, then sendCommand, which
\* returns nil whether the write succeeds or fails
ViscaPreset ==
    /\ configured = "visca"
    /\ encIn.op \in PresetOps
    /\ encOut = NoOut
    /\ IF PresetInRange("visca", encIn.n)
       THEN /\ viSendCommand("s1", "preset", encIn.op, PresetPayload(encIn.op, encIn.n))
            /\ encOut' = [err |-> "nil", wire |-> <<viWire'[Len(viWire')].pkt>>]
       ELSE /\ encOut' = [err |-> "validation", wire |-> << >>]
            /\ UNCHANGED <<viWire, seqNum, viMine>>
    /\ UNCHANGED <<protocol, viSince, viPc, viCmd, viNowAge, viHandled, viOwed,
                   viMsgs, viElapsed, encIn>>

\* panasonic sendCommand: one HTTP GET that carries the command; the error
\* of a failed GET is returned
paSendError(up) == IF up THEN "nil" ELSE "send"

\* panasonic RecallPreset / SavePreset: the range check, then
\* return c.sendCommand(...)
PanasonicPreset ==
    /\ configured = "panasonic"
    /\ encIn.op \in PresetOps
    /\ encOut = NoOut
    /\ encOut' = IF PresetInRange("panasonic", encIn.n)
                 THEN [err |-> paSendError(encIn.up),
                       wire |-> <<PresetCmd(encIn.op, encIn.n)>>]
                 ELSE [err |-> "validation", wire |-> << >>]
    /\ UNCHANGED encIn

\* visca PanTilt and Zoom with the value on every axis, the rate limit
\* open: the payloads they hand to sendCommand
ViscaEncode ==
    /\ configured = "visca"
    /\ encIn.op = "PanTiltZoom"
    /\ encOut = NoOut
    /\ \E pt \in PanTiltPayloads(encIn.n, encIn.n) : \E z \in ZoomPayloads(encIn.n) :
          encOut' = [err |-> "nil", wire |-> <<pt, z>>]
    /\ UNCHANGED encIn

\* panasonic sendPanTiltCmd and sendZoomCmd with the value on every axis;
\* neither looks at what sendCommand returns
PanasonicEncode ==
    /\ configured = "panasonic"
    /\ encIn.op = "PanTiltZoom"
    /\ encOut = NoOut
    /\ encOut' = [err |-> "nil",
                  wire |-> <<PaCmd("panTilt", <<encIn.n, encIn.n>>), PaCmd("zoom", encIn.n)>>]
    /\ UNCHANGED encIn

\* Stop of either variant: the two stop commands, return nil
StopCall ==
    /\ encIn.op = "Stop"
    /\ encOut = NoOut
    /\ encOut' = [err |-> "nil",
                  wire |-> IF configured = "visca"
                           THEN <<PanTiltStopPayload, ZoomStopPayload>>
                           ELSE <<PaCmd("panTilt", <<0, 0>>), PaCmd("zoom", 0)>>]
    /\ UNCHANGED encIn

(***************************************************************************)
(* Browser client: gamepad polling and the PTZ send loop (web/app.js)      *)
(***************************************************************************)
\* raw gamepad axis values in thousandths: rest, inside the deadzone, just
\* outside it (0.109, 0.127), half and full deflection
PanAxis == {0, 50, 109, 127, 550}
TiltAxis == {0, -1000}
ZoomAxis == {0, 550}

Axes(p, t, z) == [pan |-> p, tilt |-> t, zoom |-> z]
\* applyDeadzone with the deadzone 0.1: a raw value in thousandths to a
\* value in hundredths
deadzone == 100
applyDeadzone(value) ==
    IF abs(value) < deadzone THEN 0
    ELSE (IF value > 0 THEN 1 ELSE -1) * (((abs(value) - deadzone) * 100) \div (1000 - deadzone))
\* the change threshold 0.02 of the send loop, in hundredths
threshold == 2

\* the constructor of PTZClient
InitBrowser ==
    /\ currentPTZ = Axes(0, 0, 0)
    /\ lastPTZ = Axes(0, 0, 0)
    /\ isMoving = FALSE
    /\ wsOut = << >>
    /\ brTicks = 0

\* pollGamepad with a gamepad connected: left stick pan and tilt (Y
\* inverted), right stick Y inverted for zoom
PollGamepad ==
    /\ \E a0 \in PanAxis : \E a1 \in TiltAxis : \E a3 \in ZoomAxis :
          currentPTZ' = Axes(applyDeadzone(a0), applyDeadzone(-a1), applyDeadzone(-a3))
    /\ UNCHANGED <<lastPTZ, isMoving, wsOut, brTicks>>

\* one run of the setInterval callback of startPTZSendLoop, the WebSocket
\* being open; sendPTZStop sends ptz_stop and zeroes lastPTZ and currentPTZ
SendTick ==
    LET c == currentPTZ
        hasChanged == \/ abs(c.pan - lastPTZ.pan) > threshold
                      \/ abs(c.tilt - lastPTZ.tilt) > threshold
                      \/ abs(c.zoom - lastPTZ.zoom) > threshold
        wasMoving == isMoving
        moving == c.pan # 0 \/ c.tilt # 0 \/ c.zoom # 0
    IN  /\ brTicks < MaxTicks
        /\ brTicks' = brTicks + 1
        /\ isMoving' = moving
        /\ IF hasChanged
           THEN /\ lastPTZ' = c
                /\ IF wasMoving /\ ~moving
                   THEN /\ wsOut' = Append(wsOut, PTZStop)
                        /\ currentPTZ' = Axes(0, 0, 0)
                   ELSE /\ wsOut' = IF moving
                                    THEN Append(wsOut, PTZCommand(c.pan, c.tilt, c.zoom))
                                    ELSE wsOut
                        /\ UNCHANGED currentPTZ
           ELSE UNCHANGED <<lastPTZ, wsOut, currentPTZ>>

(***************************************************************************)
(* The bytes of an upstream connection and the frames the readLoop makes   *)
(* of them                                                                 *)
(***************************************************************************)
\* '$', the first byte of the marker of an interleaved frame
Dollar == 36
\* "\r\n\r\n": the end of the headers of a text response
BlankLine == <<13, 10, 13, 10>>
\* a text response without a body: n characters and the blank line
Text(n) == [i \in 1..n |-> 82] \o BlankLine
\* the payloads and the frames of a camera
CamPayloads == UNION {[1..n -> {7, Dollar}] : n \in 1..MaxPayload}
CamFrames == [ch : {0, 1}, data : CamPayloads]
\* a frame on the wire: '$', the channel, the length in two bytes, the payload
Encode(fr) ==
    <<Dollar, fr.ch, Len(fr.data) \div 256, Len(fr.data) % 256>> \o fr.data

InitStreamIdle ==
    /\ upstream = << >>
    /\ camFrames = << >>
    /\ framed = << >>

\* the camera sends a frame of one byte, then possibly a text response (to
\* a keepalive), then a second frame
InitStream ==
    \E a \in {fr \in CamFrames : Len(fr.data) = 1}, b \in CamFrames, n \in -1..MaxText :
        /\ camFrames = <<a, b>>
        /\ upstream = Encode(a) \o (IF n < 0 THEN << >> ELSE Text(n)) \o Encode(b)
        /\ framed = << >>

\* the four bytes io.ReadFull hands to the readLoop, and what they say
Header == SubSeq(upstream, 1, 4)
Length == Header[3] * 256 + Header[4]
After(n) == SubSeq(upstream, n + 1, Len(upstream))

\* readLoop, one iteration: the marker does not start with '$', or its
\* length is 0: the loop goes on with the next four bytes
RlSkipMarker ==
    /\ Len(upstream) >= 4
    /\ Header[1] # Dollar \/ Length = 0
    /\ upstream' = After(4)
    /\ UNCHANGED <<camFrames, framed>>

\* readLoop, one iteration: the marker starts with '$' and the payload of
\* its length is read
RlFramePayload ==
    /\ Len(upstream) >= 4
    /\ Header[1] = Dollar /\ Length > 0
    /\ Len(upstream) >= 4 + Length
    /\ framed' = Append(framed, [ch |-> Header[2], data |-> SubSeq(upstream, 5, 4 + Length)])
    /\ upstream' = After(4 + Length)
    /\ UNCHANGED camFrames

\* readLoop, one iteration: the marker starts with '$' and the connection
\* has fewer bytes than its length: io.ReadFull takes what there is and
\* returns the error of the read deadline
RlPayloadError ==
    /\ Len(upstream) >= 4
    /\ Header[1] = Dollar /\ Length > 0
    /\ Len(upstream) < 4 + Length
    /\ upstream' = << >>
    /\ UNCHANGED <<camFrames, framed>>

(***************************************************************************)
(* The history of a Panasonic controller: what was submitted to each       *)
(* group and what went out for it, in order                                *)
(***************************************************************************)
InitObserved ==
    /\ paSubmitted = [g \in Groups |-> << >>]
    /\ paWire = [g \in Groups |-> << >>]
    /\ rtspOut = << >>
    /\ rtspOpen = {}
    /\ spawnedFor = << >>
    /\ recFor = 0

\* this step is the locked section of a PanTilt or Zoom call on group g
Submits(g) == paCalls'[g] < paCalls[g]
\* this step is the locked section of Stop that zeroes group g
StopZeroes(g) ==
    IF g = "panTilt" THEN paCalls'["Stop"] < paCalls["Stop"]
    ELSE \E c \in PaCallers : paPc[c] = "stop_zoom" /\ paPc'[c] # "stop_zoom"
\* this step hands a command of group g to sendCommand
Sends(g) == paSendAges'[g] = Append(paSendAges[g], 0)

\* the history kept beside a step of the controller
Observe ==
    /\ paSubmitted' =
         [g \in Groups |->
            IF Submits(g)
            THEN Append(paSubmitted[g], [by |-> "call", cmd |-> PaCmd(g, pending'[g])])
            ELSE IF StopZeroes(g)
            THEN Append(paSubmitted[g], [by |-> "Stop", cmd |-> PaCmd(g, Zero(g))])
            ELSE paSubmitted[g]]
    /\ paWire' = [g \in Groups |->
                    IF Sends(g) THEN Append(paWire[g], paLast'[g]) ELSE paWire[g]]
    /\ UNCHANGED <<rtspOut, rtspOpen, spawnedFor, recFor>>

\* the requests of a connect on connection k, each a call of sendRequest:
\* the counter q and the session s are the client's when the call is made,
\* and setup stores the session of the connection
RECURSIVE Requests(_, _, _, _)
Requests(ms, q, s, k) ==
    IF ms = << >> THEN << >>
    ELSE <<[conn |-> k, method |-> Head(ms), cseq |-> CSeqInc(q), session |-> s]>>
         \o Requests(Tail(ms), CSeqInc(q), IF Head(ms) = "SETUP" THEN k ELSE s, k)

\* this step is a connect that dialled a connection
Connects == dialled' # dialled
\* this step is the keepalive's GET_PARAMETER
KeepsAlive == kaPc = "send" /\ kaPc' = "wait" /\ conn # 0 /\ session # 0
\* this step is the Close that sends TEARDOWN
TearsDown == closed' /\ ~closed /\ conn # 0
\* this step is the reconnect that closes the old connection
ClosesOld == recPc = "close" /\ recPc' # "close" /\ conn # 0

\* this step is a `go c.reconnect()`, and the connection whose error it
\* answers: the one the readLoop read from, or the one of the keepalive
Spawns == recSpawned' > recSpawned
FailedConn == IF rlPc = "read" /\ rlPc' # "read" THEN rlReader ELSE conn
\* this step is the guard of a reconnect goroutine, and the guard lets it by
Guards == recSpawned' < recSpawned
PassesGuard == Guards /\ connected /\ ~connected'
Without(q, i) == SubSeq(q, 1, i - 1) \o SubSeq(q, i + 1, Len(q))

\* a conn.Close() that leaves the connection open
ConnClose_Open(S, k) == S
\* conn.Close() on connection k
ConnClose(S, k) == S \ {k}

\* the history kept beside a step of the RTSP client: connect resets the
\* counter and the session before its first request
ObserveRtsp ==
    /\ rtspOut' = rtspOut \o
         (IF Connects THEN Requests(lastAttempt'.reqs, 0, 0, conn')
          ELSE IF KeepsAlive
          THEN Requests(<<"GET_PARAMETER">>, cseq, session, conn)
          ELSE IF TearsDown
          THEN Requests(<<"TEARDOWN">>, cseq, session, conn)
          ELSE << >>)
    /\ rtspOpen' =
         IF Connects
         THEN IF lastAttempt'.ok THEN rtspOpen \cup {conn'}
              ELSE ConnClose(rtspOpen \cup {conn'}, conn')
         ELSE IF ClosesOld \/ TearsDown THEN ConnClose(rtspOpen, conn)
         ELSE rtspOpen
    /\ IF Spawns
       THEN spawnedFor' = Append(spawnedFor, FailedConn) /\ UNCHANGED recFor
       ELSE IF Guards
       THEN \E i \in 1..Len(spawnedFor) :
               /\ spawnedFor' = Without(spawnedFor, i)
               /\ recFor' = IF PassesGuard THEN spawnedFor[i] ELSE recFor
       ELSE UNCHANGED <<spawnedFor, recFor>>
    /\ UNCHANGED <<paSubmitted, paWire>>

(***************************************************************************)
(* Close of the RTSP client and of the two controllers                     *)
(***************************************************************************)
Components == {"rtsp", "visca", "panasonic"}

\* NewController of either variant, NewClient: nothing is closed
InitClose ==
    /\ paStopCh = FALSE
    /\ viConnOpen = TRUE
    /\ panicked = FALSE
    /\ closeCalls = [k \in Components |-> 0]
    /\ closeRet = [k \in Components |-> "none"]

\* a call of Close on component k that returns r, or panics
Called(k, r) ==
    /\ ~panicked
    /\ closeCalls[k] < MaxCloses
    /\ closeCalls' = [closeCalls EXCEPT ![k] = @ + 1]
    /\ closeRet' = [closeRet EXCEPT ![k] = r]
    /\ panicked' = (r = "panic")

\* panasonic Controller.Close: close(c.stopCh); closing a closed channel
\* panics
PaClose ==
    /\ configured = "panasonic"
    /\ Called("panasonic", IF paStopCh THEN "panic" ELSE "nil")
    /\ paStopCh' = TRUE
    /\ UNCHANGED viConnOpen

\* the deferred-send goroutine of a throttle takes the stopCh case of its
\* select and ends without a flush
PaTimerStop ==
    /\ paStopCh
    /\ \E g \in Groups : \E i \in 1..Len(timers[g]) :
          timers' = [timers EXCEPT ![g] =
                       SubSeq(@, 1, i - 1) \o SubSeq(@, i + 1, Len(@))]
    /\ UNCHANGED <<pending, sent, sinceSend, timerRunning, paLast, paSendAges,
                   paPc, paMine, paCalls>>

\* visca Controller.Close: c.conn.Close(); c.conn stays set, and closing a
\* closed connection returns an error
ViClose ==
    /\ configured = "visca"
    /\ Called("visca", IF viConnOpen THEN "nil" ELSE "error")
    /\ viConnOpen' = FALSE
    /\ UNCHANGED paStopCh

\* rtsp Client.Close, called by any task
RcClose ==
    /\ rtspClient
    /\ Called("rtsp", "nil")
    /\ rcClose
    /\ UNCHANGED <<paStopCh, viConnOpen>>
    /\ UNCHANGED <<connected, conn, reader, session, rtpChan, dialled, lastAttempt,
                   rlPc, rlReader, readLog, kaPc, recSpawned, recPc, attempt,
                   recDelay, feed, refusals, faults>>
    /\ UNCHANGED hubVars
    /\ UNCHANGED wdVars

(***************************************************************************)
(* Specifications                                                          *)
(***************************************************************************)
vars == <<configured, paVars, viVars, rcVars, hubVars, sdVars, wdVars, clVars, msVars, brVars, srVars, obVars,
         encVars>>
\* what the steps of one part of the program leave alone
notPaOb == <<configured, viVars, rcVars, hubVars, sdVars, wdVars, clVars, msVars, brVars, srVars, encVars>>
notPa == <<notPaOb, obVars>>
notVi == <<configured, paVars, rcVars, hubVars, sdVars, wdVars, clVars, msVars, brVars, srVars, obVars, encVars>>
notRelayOb == <<configured, paVars, viVars, sdVars, clVars, msVars, brVars, srVars, encVars>>
notRelay == <<notRelayOb, obVars>>
notSd == <<configured, paVars, viVars, rcVars, hubVars, wdVars, clVars, msVars, brVars, srVars, obVars, encVars>>
notSr == <<configured, paVars, viVars, rcVars, hubVars, sdVars, wdVars, clVars, msVars, brVars, obVars, encVars>>
\* the parts of the program a specification leaves at rest
InitDescribeIdle ==
    /\ InitDescribe({RtspScheme \o <<"h", "/", "s">>}, {<< >>})
    /\ quiet = << >> /\ readLoops = 0
    /\ InitClose /\ InitMessages(0) /\ InitCall({NoCall}) /\ InitBrowser /\ InitStreamIdle /\ InitObserved

PaAllIdle == \A c \in PaCallers : paPc[c] = "idle"
ViAllIdle == \A s \in ViSessions : viPc[s] = "idle"

(***************************************************************************)
(* The Panasonic throttle with PanTilt and Zoom callers, no Stop           *)
(***************************************************************************)
InitThrottle ==
    /\ configured = "panasonic"
    /\ InitPana /\ PaBudget(MaxPanTiltCalls, MaxZoomCalls, 0)
    /\ InitVisca
    /\ InitRtsp(0, 0, 0) /\ InitHub({}) /\ InitDescribeIdle
ThrottleNext ==
    \/ (\E c \in PaCallers : PanTilt(c)) /\ UNCHANGED notPa
    \/ (\E c \in PaCallers : Zoom(c)) /\ UNCHANGED notPa
    \/ (\E c \in PaCallers : Trigger(c)) /\ UNCHANGED notPa
    \/ TimerFire /\ UNCHANGED notPa
    \/ PaTick /\ UNCHANGED notPa
SpecThrottle == InitThrottle /\ [][ThrottleNext]_vars
\* with the scheduler's fairness: a caller finishes the call it is in, a
\* sleeping goroutine wakes up, time passes
FairThrottle ==
    /\ SpecThrottle
    /\ WF_vars((\E c \in PaCallers : Trigger(c)) /\ UNCHANGED notPa)
    /\ WF_vars(TimerFire /\ UNCHANGED notPa)
    /\ WF_vars(PaTick /\ UNCHANGED notPa)

PaCalled(g) == paCalls[g] < (IF g = "panTilt" THEN MaxPanTiltCalls ELSE MaxZoomCalls)

\* C1 as stated: once the calls have ceased, the value of the last PanTilt
\* (Zoom) call is eventually, and from then on, the value most recently sent
\* on the wire for its group.
C1_LastValueIsLastSent ==
    <>[](\A g \in Groups :
            PaCalled(g) => paLast[g].cmd = PaCmd(g, pending[g]))

\* C1 amended: once the calls have ceased, the value of the last PanTilt
\* (Zoom) call is eventually, and from then on, the value most recently sent
\* on the wire for its group, unless nothing was ever sent for the group and
\* the value is the rest value (0,0) or 0 the controller starts from.
C1_LastValueIsLastSentOrRest ==
    <>[](\A g \in Groups :
            PaCalled(g) =>
                \/ paLast[g].cmd = PaCmd(g, pending[g])
                \/ paLast[g] = NoCmd /\ pending[g] = Zero(g))

\* the calls have ceased and the last value went out by the deferred send
C1_Witness ==
    /\ PaAllIdle
    /\ paCalls["panTilt"] = 0
    /\ timers["panTilt"] = << >>
    /\ paLast["panTilt"] = [cmd |-> PaCmd("panTilt", pending["panTilt"]), by |-> "timer"]
    /\ pending["panTilt"] # Zero("panTilt")

(***************************************************************************)
(* A burst of PanTilt calls on the Panasonic throttle                      *)
(***************************************************************************)
BurstNext ==
    \/ (\E c \in PaCallers : PanTilt(c)) /\ UNCHANGED notPa
    \/ (\E c \in PaCallers : paTrigger(c, "panTilt")) /\ UNCHANGED notPa
    \/ (\E i \in 1..Len(timers["panTilt"]) : paTimerFire("panTilt", i)) /\ UNCHANGED notPa
    \/ PaTick /\ UNCHANGED notPa
InitRate ==
    /\ configured = "panasonic"
    /\ InitPana /\ PaBudget(MaxBurstCalls, 0, 0)
    /\ InitVisca
    /\ InitRtsp(0, 0, 0) /\ InitHub({}) /\ InitDescribeIdle
SpecRate == InitRate /\ [][BurstNext]_vars

CeilDiv(a, b) == (a + b - 1) \div b
\* the sends of group g that are between lo and hi ticks old
SendsIn(g, lo, hi) ==
    Len(SelectSeq(paSendAges[g], LAMBDA a : lo <= a /\ a <= hi))

\* C3: in any window of length T the wire sees at most ceil(T/minInterval) + 1
\* sends of one group.  The window of the ticks lo..hi has length hi - lo + 1.
C3_RateBound ==
    \A g \in Groups : \A lo \in 0..minInterval : \A hi \in lo..minInterval :
        SendsIn(g, lo, hi) <= CeilDiv(hi - lo + 1, minInterval) + 1

(***************************************************************************)
(* The VISCA controller behind the hub's dispatch                          *)
(***************************************************************************)
InitViscaSpec ==
    /\ configured = "visca"
    /\ InitPana /\ PaBudget(0, 0, 0)
    /\ InitVisca
    /\ InitRtsp(0, 0, 0) /\ InitHub({}) /\ InitDescribeIdle
ViscaNext ==
    \/ (\E s \in ViSessions : ViPanTiltCheck(s)) /\ UNCHANGED notVi
    \/ (\E s \in ViSessions : ViPanTiltSet(s)) /\ UNCHANGED notVi
    \/ (\E s \in ViSessions : ViPanTiltSend(s)) /\ UNCHANGED notVi
    \/ (\E s \in ViSessions : ViZoomCheck(s)) /\ UNCHANGED notVi
    \/ (\E s \in ViSessions : ViZoomSet(s)) /\ UNCHANGED notVi
    \/ (\E s \in ViSessions : ViZoomSend(s)) /\ UNCHANGED notVi
    \/ (\E s \in ViSessions : ViStopResetPanTilt(s)) /\ UNCHANGED notVi
    \/ (\E s \in ViSessions : ViStopResetZoom(s)) /\ UNCHANGED notVi
    \/ (\E s \in ViSessions : ViStopSendPanTilt(s)) /\ UNCHANGED notVi
    \/ (\E s \in ViSessions : ViStopSendZoom(s)) /\ UNCHANGED notVi
    \/ (\E s \in ViSessions : ViStopReturn(s)) /\ UNCHANGED notVi
    \/ ViTick /\ UNCHANGED notVi
SpecVisca == InitViscaSpec /\ [][ViscaNext]_vars

\* C2: a PanTilt or Zoom value that arrives less than minInterval after the
\* last send of its group is not dropped: when the viewers have sent their
\* last message and every handler has returned, no group is left with a
\* skipped value and no send after it.
C2_SkippedValueIsSent ==
    (ViAllIdle /\ viMsgs = 0) => \A g \in Groups : ~viOwed[g]

\* the viewer s sent ptz_command {pan 0.5, tilt 0, zoom 0}, then ptz_stop,
\* within one throttle window, to an idle controller, and both are handled
StopScenario(s) ==
    /\ viHandled[s] = <<PTZCommand(50, 0, 0), PTZStop>>
    /\ \A o \in ViSessions \ {s} : viHandled[o] = << >>
    /\ ViAllIdle
    /\ viElapsed < minInterval

\* C5: in the stop scenario (ptz_command {0.5, 0, 0}, then ptz_stop, within
\* one throttle window, controller idle before) the camera wire receives at
\* most two sends in total.
C5_AtMostTwoSends ==
    \A s \in ViSessions : StopScenario(s) => Len(viWire) <= 2

\* the stop scenario has been played to its end
C5_Witness == \E s \in ViSessions : StopScenario(s)

\* the commands of group g on the wire that are not Stop commands
NonStop(g) == {i \in 1..Len(viWire) : viWire[i].g = g /\ viWire[i].op # "Stop"}

\* C23: two PanTilt commands, and two Zoom commands, are never put on the
\* wire less than minInterval apart, whichever sessions call: as long as
\* less than minInterval has passed since the first message was taken, the
\* wire holds at most one PanTilt and at most one Zoom command.
C23_RateLimited ==
    viElapsed < minInterval => \A g \in Groups : Cardinality(NonStop(g)) <= 1
\* two sessions have each put a PanTilt command on the wire inside one
\* interval, and no Stop was called
C23_Witness ==
    /\ viElapsed < minInterval
    /\ Cardinality(NonStop("panTilt")) = 2
    /\ \A s \in ViSessions : Len(viHandled[s]) = 1 /\ viHandled[s][1] # PTZStop

(***************************************************************************)
(* Either controller variant, Stop included                                *)
(***************************************************************************)
InitStop ==
    /\ configured \in {"panasonic", "visca"}
    /\ InitPana
    /\ IF configured = "panasonic" THEN PaBudget(MaxPanTiltCalls - 1, MaxZoomCalls - 1, MaxStopCalls)
                                   ELSE PaBudget(0, 0, 0)
    /\ InitVisca
    /\ InitRtsp(0, 0, 0) /\ InitHub({}) /\ InitDescribeIdle
StopNext ==
    \/ configured = "panasonic" /\ (\E c \in PaCallers : PanTilt(c)) /\ UNCHANGED notPa
    \/ configured = "panasonic" /\ (\E c \in PaCallers : Zoom(c)) /\ UNCHANGED notPa
    \/ configured = "panasonic" /\ (\E c \in PaCallers : Trigger(c)) /\ UNCHANGED notPa
    \/ configured = "panasonic" /\ TimerFire /\ UNCHANGED notPa
    \/ configured = "panasonic" /\ PaTick /\ UNCHANGED notPa
    \/ configured = "panasonic" /\ (\E c \in PaCallers : StopBegin(c)) /\ UNCHANGED notPa
    \/ configured = "panasonic" /\ (\E c \in PaCallers : StopZoom(c)) /\ UNCHANGED notPa
    \/ configured = "panasonic" /\ (\E c \in PaCallers : StopSendPanTilt(c)) /\ UNCHANGED notPa
    \/ configured = "panasonic" /\ (\E c \in PaCallers : StopSendZoom(c)) /\ UNCHANGED notPa
    \/ configured = "panasonic" /\ (\E c \in PaCallers : StopReturn(c)) /\ UNCHANGED notPa
    \/ configured = "visca" /\ (\E s \in ViSessions : ViPanTiltCheck(s)) /\ UNCHANGED notVi
    \/ configured = "visca" /\ (\E s \in ViSessions : ViPanTiltSet(s)) /\ UNCHANGED notVi
    \/ configured = "visca" /\ (\E s \in ViSessions : ViPanTiltSend(s)) /\ UNCHANGED notVi
    \/ configured = "visca" /\ (\E s \in ViSessions : ViZoomCheck(s)) /\ UNCHANGED notVi
    \/ configured = "visca" /\ (\E s \in ViSessions : ViZoomSet(s)) /\ UNCHANGED notVi
    \/ configured = "visca" /\ (\E s \in ViSessions : ViZoomSend(s)) /\ UNCHANGED notVi
    \/ configured = "visca" /\ (\E s \in ViSessions : ViStopResetPanTilt(s)) /\ UNCHANGED notVi
    \/ configured = "visca" /\ (\E s \in ViSessions : ViStopResetZoom(s)) /\ UNCHANGED notVi
    \/ configured = "visca" /\ (\E s \in ViSessions : ViStopSendPanTilt(s)) /\ UNCHANGED notVi
    \/ configured = "visca" /\ (\E s \in ViSessions : ViStopSendZoom(s)) /\ UNCHANGED notVi
    \/ configured = "visca" /\ (\E s \in ViSessions : ViStopReturn(s)) /\ UNCHANGED notVi
    \/ configured = "visca" /\ ViTick /\ UNCHANGED notVi
SpecStop == InitStop /\ [][StopNext]_vars

\* C4: in either variant a Stop call clears the throttle state of both groups
\* (pending and sent, or the rate-limit timestamps) and has put exactly one
\* pan/tilt stop and then one zoom stop on the wire when it returns,
\* whatever the throttle state it found.
C4_StopBypassesThrottle ==
    [][/\ \A c \in PaCallers :
            /\ paPc'[c] = "stop_zoom" /\ paPc[c] # "stop_zoom"
                 => pending'["panTilt"] = <<0, 0>> /\ sent'["panTilt"] = <<0, 0>>
            /\ paPc'[c] = "stop_send_pt" /\ paPc[c] # "stop_send_pt"
                 => pending'["zoom"] = 0 /\ sent'["zoom"] = 0
            /\ paPc'[c] = "stop_ret"
                 => paMine'[c] = << <<"PTS", 50, 50>>, <<"Z", 50>> >>
       /\ \A s \in ViSessions :
            /\ viPc'[s] = "stop_reset_zoom" /\ viPc[s] # "stop_reset_zoom"
                 => viSince'["panTilt"] >= minInterval
            /\ viPc'[s] = "stop_send_pt" /\ viPc[s] # "stop_send_pt"
                 => viSince'["zoom"] >= minInterval
            /\ viPc'[s] = "stop_ret"
                 => viMine'[s] = << <<1, 6, 1, 1, 1, 3, 3>>, <<1, 4, 7, 0>> >>
      ]_vars

\* a Stop has sent both commands while the pan/tilt throttle is in its
\* cooldown with a deferred send scheduled
C4_Witness ==
    \E c \in PaCallers :
        /\ paPc[c] = "stop_ret"
        /\ timerRunning["panTilt"]
        /\ timers["panTilt"] # << >>
        /\ sinceSend["panTilt"] < minInterval

(***************************************************************************)
(* The relay: a feed that breaks once, broadcast, one viewer               *)
(***************************************************************************)
InitPtzIdle ==
    /\ configured = "visca"
    /\ InitPana /\ PaBudget(0, 0, 0)
    /\ InitVisca
InitRelay == InitPtzIdle /\ InitRtsp(0, MaxFaults, RelayFrames) /\ InitHub({"w1"}) /\ InitDescribeIdle
RelayNext ==
    \/ StartConnect /\ UNCHANGED notRelay
    \/ RlTop /\ UNCHANGED notRelay
    \/ RlCapture /\ UNCHANGED notRelay
    \/ RlReadFrame /\ UNCHANGED notRelay
    \/ RlReadNothing /\ UNCHANGED notRelay
    \/ RlReadError /\ UNCHANGED notRelay
    \/ RecGuard /\ UNCHANGED notRelay
    \/ RecCloseOld /\ UNCHANGED notRelay
    \/ RecBackoff /\ UNCHANGED notRelay
    \/ RecWake /\ UNCHANGED notRelay
    \/ RecConnect /\ UNCHANGED notRelay
    \/ (\E v \in Viewers : Accept(v)) /\ UNCHANGED notRelay
    \/ (\E v \in Viewers : InitWebRTC(v)) /\ UNCHANGED notRelay
    \/ Broadcast /\ UNCHANGED notRelay
    \/ (\E v \in Viewers : Forward(v)) /\ UNCHANGED notRelay
SpecRelay == InitRelay /\ [][RelayNext]_vars

RECURSIVE IsSubseq(_, _)
IsSubseq(a, b) ==
    IF a = << >> THEN TRUE
    ELSE IF b = << >> THEN FALSE
    ELSE IF Head(a) = Head(b) THEN IsSubseq(Tail(a), Tail(b))
    ELSE IsSubseq(a, Tail(b))
Range(q) == {q[i] : i \in 1..Len(q)}
\* the payloads of the frames read on channel 0 (on the other channels)
Video == LET z == SelectSeq(readLog, LAMBDA fr : fr.ch = 0)
         IN  [i \in 1..Len(z) |-> Packet(z[i])]
NonVideo == {Packet(readLog[i]) : i \in {j \in 1..Len(readLog) : readLog[j].ch # 0}}

\* C7: what is enqueued to a viewer's queue, and what is in the publish
\* queue, is an order-preserving subsequence of the payloads read on channel
\* 0, and no payload read on another channel is in the publish queue or in a
\* viewer's queue.
C7_ChannelZeroInOrder ==
    /\ IsSubseq(rtpChan, Video)
    /\ Range(rtpChan) \cap NonVideo = {}
    /\ \A v \in Viewers :
         /\ IsSubseq(vGot[v], Video)
         /\ IsSubseq(vRtp[v], vGot[v])
         /\ Range(vGot[v]) \cap NonVideo = {}

\* a viewer got every channel-0 payload, at least two, and a frame was read
\* on channel 1
C7_Witness ==
    \E v \in Viewers :
        /\ vGot[v] = Video
        /\ Len(Video) >= 2
        /\ NonVideo # {}

NoMix(q) == \A i \in 1..Len(q) : \A j \in 1..Len(q) : i < j => q[i].conn <= q[j].conn

\* C8: no packet of an earlier connection comes after a packet of a later
\* one, in what the read loop reads, in what the hub is handed (the publish
\* queue, after what a viewer was given) and in what each viewer is given.
C8_NoMixAcrossReconnect ==
    /\ NoMix(readLog)
    /\ \A v \in Viewers : NoMix(vGot[v] \o rtpChan)

\* a viewer was given a packet of the first connection and then one of a
\* later connection
C8_Witness ==
    \E v \in Viewers : \E i \in 1..Len(vGot[v]) : \E j \in 1..Len(vGot[v]) :
        vGot[v][i].conn < vGot[v][j].conn

(***************************************************************************)
(* The hub's broadcast: a feed without faults, viewers that come and leave *)
(***************************************************************************)
InitBroadcast == InitPtzIdle /\ InitRtsp(0, 0, MaxFrames) /\ InitHub(Viewers) /\ InitDescribeIdle
BroadcastNext ==
    \/ StartConnect /\ UNCHANGED notRelay
    \/ RlTop /\ UNCHANGED notRelay
    \/ RlCapture /\ UNCHANGED notRelay
    \/ RlReadFrame /\ UNCHANGED notRelay
    \/ RlReadNothing /\ UNCHANGED notRelay
    \/ (\E v \in Viewers : Accept(v)) /\ UNCHANGED notRelay
    \/ (\E v \in Viewers : InitWebRTC(v)) /\ UNCHANGED notRelay
    \/ Broadcast /\ UNCHANGED notRelay
    \/ (\E v \in Viewers : Forward(v)) /\ UNCHANGED notRelay
SpecBroadcast == InitBroadcast /\ [][BroadcastNext]_vars

\* C6: a viewer's queue never holds more than its capacity; the broadcast of
\* a packet is never blocked by a viewer's queue; and it enqueues the packet
\* to each registered viewer whose queue is below capacity and leaves the
\* queue of every other viewer as it is, whatever the other queues hold.
C6_BroadcastNeverBlocks ==
    /\ [](\A v \in Viewers : Len(vRtp[v]) <= QueueCap)
    /\ []((rtspClient /\ rtpChan # << >>) => ENABLED Broadcast)
    /\ [][(rtpChan # << >> /\ rtpChan' = Tail(rtpChan)) =>
            \A v \in Viewers :
                vRtp'[v] = IF v \in clients /\ Len(vRtp[v]) < QueueCap
                           THEN Append(vRtp[v], Head(rtpChan))
                           ELSE vRtp[v]]_vars

\* a registered viewer's queue is full and stays behind while another
\* registered viewer was given a packet that was dropped for the first
C6_Witness ==
    \E v \in clients : \E w \in clients :
        /\ Len(vRtp[v]) = QueueCap
        /\ vFwd[v] # "running"
        /\ Len(vGot[w]) > Len(vGot[v])
        /\ IsSubseq(vGot[v], vGot[w])

(***************************************************************************)
(* Teardown: a silent feed, viewers that come and go, Server.Stop          *)
(***************************************************************************)
InitTeardown == InitPtzIdle /\ InitRtsp(0, 0, 0) /\ InitHub(Viewers) /\ InitDescribeIdle
TeardownNext ==
    \/ StartConnect /\ UNCHANGED notRelay
    \/ RlTop /\ UNCHANGED notRelay
    \/ RlCapture /\ UNCHANGED notRelay
    \/ RlReadNothing /\ UNCHANGED notRelay
    \/ RlReadError /\ UNCHANGED notRelay
    \/ (\E v \in Viewers : Accept(v)) /\ UNCHANGED notRelay
    \/ (\E v \in Viewers : InitWebRTC(v)) /\ UNCHANGED notRelay
    \/ (\E v \in Viewers : Forward(v)) /\ UNCHANGED notRelay
    \/ (\E v \in Viewers : ReadPumpExit(v)) /\ UNCHANGED notRelay
    \/ (\E v \in Viewers : ReadPumpClose(v)) /\ UNCHANGED notRelay
    \/ ServerStop /\ UNCHANGED notRelay
    \/ ServerStopRtsp /\ UNCHANGED notRelay
SpecTeardown == InitTeardown /\ [][TeardownNext]_vars

\* C9: a call of Client.Close on a viewer that is already closed changes
\* nothing of the viewer, and no channel of a viewer is ever closed twice.
C9_SecondCloseIsNoOp ==
    [][\A v \in Viewers :
         /\ (vCloseCalls'[v] > vCloseCalls[v] /\ vClosed[v]) =>
               /\ vClosed'[v]
               /\ vStopRTP'[v] = vStopRTP[v]
               /\ vSend'[v] = vSend[v]
               /\ vWebrtc'[v] = vWebrtc[v]
               /\ vRtp'[v] = vRtp[v]
               /\ vFwd'[v] = vFwd[v]
         /\ vStopRTP'[v] <= 1
         /\ vSend'[v] <= 1]_vars

\* Server.Stop closed the viewer and its readPump's deferred Close followed
C9_Witness ==
    \E v \in Viewers :
        /\ vCloseCalls[v] = 2
        /\ vPc[v] = "gone"
        /\ srvPc \in {"stopping", "stopped"}

(***************************************************************************)
(* Ingestion: connect, keepalive and reconnect against a failing camera    *)
(***************************************************************************)
InitIngest == InitPtzIdle /\ InitRtsp(MaxRefusals, MaxFaults, RelayFrames) /\ InitHub({}) /\ InitDescribeIdle
IngestNext ==
    \/ StartConnect /\ UNCHANGED notRelay
    \/ RlTop /\ UNCHANGED notRelay
    \/ RlCapture /\ UNCHANGED notRelay
    \/ RlReadFrame /\ UNCHANGED notRelay
    \/ RlReadNothing /\ UNCHANGED notRelay
    \/ RlReadError /\ UNCHANGED notRelay
    \/ KaTick /\ UNCHANGED notRelay
    \/ KaSend /\ UNCHANGED notRelay
    \/ RecGuard /\ UNCHANGED notRelay
    \/ RecCloseOld /\ UNCHANGED notRelay
    \/ RecBackoff /\ UNCHANGED notRelay
    \/ RecWake /\ UNCHANGED notRelay
    \/ RecConnect /\ UNCHANGED notRelay
    \/ Broadcast /\ UNCHANGED notRelay
SpecIngest == InitIngest /\ [][IngestNext]_vars

\* a reconnect loop is running and will make another attempt
RetryPending == recPc \in {"backoff", "sleep", "connect"}
AttemptFailed == lastAttempt.by # "none" /\ ~lastAttempt.ok
\* OPTIONS, DESCRIBE, SETUP, PLAY in that order, nothing after a failed step
AttemptInOrder ==
    \E n \in 0..Len(Handshake) : lastAttempt.reqs = SubSeq(Handshake, 1, n)
ConnectedOnlyAfterPlay ==
    connected => lastAttempt.ok /\ lastAttempt.reqs = Handshake
FailureAborts ==
    AttemptFailed =>
        /\ ~connected
        /\ lastAttempt.conn # 0 => connState[lastAttempt.conn] = "failed"
FailureRetried == (AttemptFailed /\ ~stopCh) => RetryPending

\* C10: a connect attempt issues OPTIONS, DESCRIBE, SETUP, PLAY in that
\* order; the client is connected only after all four succeeded; a failure at
\* any step closes the connection, issues no later step, leaves the client
\* not connected and is followed by a retry after backoff.
C10_ConnectHandshake ==
    /\ AttemptInOrder
    /\ ConnectedOnlyAfterPlay
    /\ FailureAborts
    /\ FailureRetried

\* the first Connect, from Server.Start, got as far as a request and failed
C10_Witness ==
    /\ lastAttempt.by = "Connect"
    /\ ~lastAttempt.ok
    /\ lastAttempt.reqs # << >>

(***************************************************************************)
(* DESCRIBE and SETUP against every session description                    *)
(***************************************************************************)
InitSdp ==
    /\ InitPtzIdle /\ InitRtsp(0, 0, 0) /\ InitHub({})
    /\ InitDescribe(BaseURLs, SeqsUpTo(SdpLines, MaxSdpLines))
    /\ quiet = << >> /\ readLoops = 0
    /\ InitClose /\ InitMessages(0) /\ InitCall({NoCall}) /\ InitBrowser /\ InitStreamIdle /\ InitObserved
SdpNext ==
    \/ Describe /\ UNCHANGED notSd
    \/ Setup /\ UNCHANGED notSd
SpecSdp == InitSdp /\ [][SdpNext]_vars

IsMedia(line) == HasPrefix(TrimSpace(line), MediaPrefix)
IsVideo(line) == HasPrefix(TrimSpace(line), VideoPrefix)
IsControl(line) == HasPrefix(TrimSpace(line), ControlPrefix)
\* line i is an a=control line of a video section: the last m= line before it
\* is an m=video line
InVideo(i) ==
    /\ IsControl(sdp[i]) /\ ~IsMedia(sdp[i])
    /\ \E j \in 1..(i - 1) :
          /\ IsVideo(sdp[j])
          /\ \A k \in (j + 1)..(i - 1) : ~IsMedia(sdp[k])
VideoControls == {i \in 1..Len(sdp) : InVideo(i)}
\* the value of the first of them
VideoControl ==
    LET i == CHOOSE x \in VideoControls : \A y \in VideoControls : x <= y
    IN  TrimSpace(TrimPrefix(TrimSpace(sdp[i]), ControlPrefix))

\* C11: when the description has an a=control attribute in its video section,
\* the SETUP request targets its resolution: the value itself when it starts
\* with rtsp://, the base URL when it is "*", else the base URL and the value
\* with a "/" between them only if the base URL does not end in one.
C11_SetupTargetsResolvedControl ==
    (sdPc = "done" /\ VideoControls # {}) =>
        LET v == VideoControl
        IN  /\ HasPrefix(v, RtspScheme) => setupURI = v
            /\ v = Star => setupURI = url
            /\ (~HasPrefix(v, RtspScheme) /\ v # Star) =>
                 \/ HasSuffix(url, Slash) /\ setupURI = url \o v
                 \/ ~HasSuffix(url, Slash) /\ setupURI = url \o Slash \o v

\* SETUP went to rtsp://h/s/track1 for the control value track1 under the
\* base URL rtsp://h/s/, which ends in the separator
C11_Witness ==
    /\ sdPc = "done"
    /\ VideoControls # {}
    /\ VideoControl = <<"t", "r", "a", "c", "k", "1">>
    /\ HasSuffix(url, Slash)
    /\ setupURI = RtspScheme \o <<"h", "/", "s", "/", "t", "r", "a", "c", "k", "1">>

(***************************************************************************)
(* Backoff: a camera that becomes unreachable and stays so                 *)
(***************************************************************************)
InitBackoff ==
    /\ InitPtzIdle /\ InitRtsp(MaxAttempts, MaxFaults, 0) /\ InitHub({})
    /\ InitDescribeIdle
BackoffNext ==
    \/ StartConnect /\ UNCHANGED notRelay
    \/ RlTop /\ UNCHANGED notRelay
    \/ RlCapture /\ UNCHANGED notRelay
    \/ RlReadNothing /\ UNCHANGED notRelay
    \/ RlReadError /\ UNCHANGED notRelay
    \/ RecGuard /\ UNCHANGED notRelay
    \/ RecCloseOld /\ UNCHANGED notRelay
    \/ RecBackoff /\ UNCHANGED notRelay
    \/ RecWake /\ UNCHANGED notRelay
    \/ RecConnect /\ UNCHANGED notRelay
SpecBackoff == InitBackoff /\ [][BackoffNext]_vars

\* C12: the delay the reconnect loop sleeps before its n-th attempt is
\* min(2^(n-1), 30) seconds, for every n: 1, 2, 4, 8, 16, 30, 30, ... and
\* never below 30 seconds again.
C12_DelayIsCappedDoubling ==
    recPc = "sleep" =>
        recDelay = (IF attempt > 5 THEN Seconds(30) ELSE Seconds(2 ^ (attempt - 1)))

\* the loop sleeps before an attempt beyond the sixth
C12_Witness == recPc = "sleep" /\ attempt > 6

(***************************************************************************)
(* The reconnect guard under repeated failure detections (SpecRelay)       *)
(***************************************************************************)
\* a reconnect goroutine passes the guard and enters the retry sequence
GuardPassed == recPc = "none" /\ recPc' = "close"

\* C13: at most one reconnection sequence runs at any time (the guard can be
\* passed only while none is running), and of the reconnect goroutines that
\* the detections of one failure spawn only one proceeds: a goroutine that
\* passes the guard finds the failed connection, never a connection that a
\* sequence before it has established and that has not failed.
C13_OneSequencePerFailure ==
    /\ [](connected => recPc = "none")
    /\ [][GuardPassed => (conn # 0 /\ connState[conn] = "broken")]_vars

\* a reconnection sequence is running while another detection of the same
\* failure has spawned a second reconnect goroutine
C13_Witness ==
    /\ recPc \in {"backoff", "sleep", "connect"}
    /\ recSpawned > 0
    /\ dialled = 1

(***************************************************************************)
(* Supervision: a camera that stays connected and may fall silent          *)
(***************************************************************************)
InitWatch ==
    /\ InitPtzIdle /\ InitRtsp(0, MaxFaults, RelayFrames) /\ InitHub({})
    /\ InitDescribe({RtspScheme \o <<"h", "/", "s">>}, {<< >>})
    /\ quiet = <<0>> /\ readLoops = 0
    /\ InitClose /\ InitMessages(0) /\ InitCall({NoCall}) /\ InitBrowser /\ InitStreamIdle /\ InitObserved
WatchNext ==
    \/ StartConnect /\ UNCHANGED notRelay
    \/ RlTop /\ UNCHANGED notRelay
    \/ RlCapture /\ UNCHANGED notRelay
    \/ RlReadFrame /\ UNCHANGED notRelay
    \/ RlReadNothing /\ UNCHANGED notRelay
    \/ RlReadError /\ UNCHANGED notRelay
    \/ KaTick /\ UNCHANGED notRelay
    \/ KaSend /\ UNCHANGED notRelay
    \/ RecGuard /\ UNCHANGED notRelay
    \/ RecCloseOld /\ UNCHANGED notRelay
    \/ RecBackoff /\ UNCHANGED notRelay
    \/ RecWake /\ UNCHANGED notRelay
    \/ RecConnect /\ UNCHANGED notRelay
    \/ Broadcast /\ UNCHANGED notRelay
SpecWatch == InitWatch /\ [][WatchNext]_vars

\* C14: whenever the client is connected and no packet was forwarded for
\* more than 10 seconds (here: MaxQuiet read deadlines of 5 seconds passed in
\* a row on the connection), a reconnect has been forced: a reconnect
\* goroutine is spawned or a reconnection sequence is running.
C14_SilenceForcesReconnect ==
    (connected /\ quiet = <<MaxQuiet>>) => (recSpawned > 0 \/ recPc # "none")

\* the camera is connected and silent for MaxQuiet read deadlines, and the
\* keepalive has been answered in the meantime
C14_Witness ==
    /\ connected
    /\ quiet = <<MaxQuiet>>
    /\ connState[conn] = "playing"
    /\ cseq > Len(Handshake)

(***************************************************************************)
(* The keepalive on an established connection (SpecWatch)                  *)
(***************************************************************************)
\* the keepaliveLoop handles one tick on which it found the client connected
KeepaliveStep == kaPc = "send" /\ kaPc' = "wait"

\* C15: on a tick with the client connected the keepalive sends one
\* GET_PARAMETER on the connection; the keepalive leaves the connection, the
\* session and the connected flag as they are and, on a connection that is
\* and stays up, starts no reconnect, so playback goes on; and a keepalive
\* that fails because the connection is down starts a reconnect.
C15_KeepaliveKeepsPlayback ==
    [][KeepaliveStep =>
         /\ (conn # 0 /\ session # 0) => cseq' = cseq + 1
         /\ UNCHANGED <<connected, conn, reader, session>>
         /\ (conn # 0 /\ connState[conn] = "playing" /\ connState'[conn] = "playing")
               => recSpawned' = recSpawned
         /\ (conn # 0 /\ session # 0 /\ connState'[conn] # "playing")
               => recSpawned' = recSpawned + 1]_vars

\* a keepalive was answered on the first connection, which is up, and
\* nothing asked for a reconnect
C15_Witness ==
    /\ connected
    /\ conn = 1
    /\ connState[1] = "playing"
    /\ cseq = Len(Handshake) + 1
    /\ kaPc = "wait"
    /\ recSpawned = 0
    /\ faults = MaxFaults

(***************************************************************************)
(* Shutdown of the RTSP client while its goroutines run                    *)
(***************************************************************************)
InitShutdown == InitPtzIdle /\ InitRtsp(0, MaxFaults, 0) /\ InitHub({}) /\ InitDescribeIdle
ShutdownNext ==
    \/ StartConnect /\ UNCHANGED notRelay
    \/ RlTop /\ UNCHANGED notRelay
    \/ RlCapture /\ UNCHANGED notRelay
    \/ RlReadNothing /\ UNCHANGED notRelay
    \/ RlReadError /\ UNCHANGED notRelay
    \/ KaTick /\ UNCHANGED notRelay
    \/ KaSend /\ UNCHANGED notRelay
    \/ RecGuard /\ UNCHANGED notRelay
    \/ RecCloseOld /\ UNCHANGED notRelay
    \/ RecBackoff /\ UNCHANGED notRelay
    \/ RecWake /\ UNCHANGED notRelay
    \/ RecConnect /\ UNCHANGED notRelay
    \/ ServerStop /\ UNCHANGED notRelay
    \/ ServerStopRtsp /\ UNCHANGED notRelay
SpecShutdown == InitShutdown /\ [][ShutdownNext]_vars

\* C16: once Close has returned, the readLoop and the keepaliveLoop have
\* ended, no reconnect is running or about to run, and the client holds no
\* open connection.
C16_CloseStopsEverything ==
    closed =>
        /\ rlPc \in {"none", "done"}
        /\ kaPc \in {"none", "done"}
        /\ recPc = "none"
        /\ recSpawned = 0
        /\ \A k \in Conns : connState[k] \in {"none", "closed"}

\* Close has returned, and the reconnect that was past its last look at
\* stopCh has since connected the client again
C16_Witness ==
    /\ closed
    /\ connected
    /\ conn = 2
    /\ connState[2] = "playing"
    /\ recPc = "none"

(***************************************************************************)
(* Close called more than once on each component                           *)
(***************************************************************************)
InitCloses ==
    /\ configured \in {"panasonic", "visca"}
    /\ InitPana
    /\ IF configured = "panasonic" THEN PaBudget(2, 1, 0) ELSE PaBudget(0, 0, 0)
    /\ InitVisca
    /\ InitRtsp(0, 0, 0) /\ InitHub({}) /\ InitDescribeIdle
ClosesNext ==
    \/ (\E c \in PaCallers : PanTilt(c)) /\ UNCHANGED notPa
    \/ (\E c \in PaCallers : Zoom(c)) /\ UNCHANGED notPa
    \/ (\E c \in PaCallers : Trigger(c)) /\ UNCHANGED notPa
    \/ TimerFire /\ UNCHANGED notPa
    \/ PaTick /\ UNCHANGED notPa
    \/ PaTimerStop /\ UNCHANGED notPa
    \/ PaClose /\ UNCHANGED <<configured, paVars, viVars, rcVars, hubVars, sdVars, wdVars, msVars, brVars, srVars, obVars, encVars>>
    \/ ViClose /\ UNCHANGED <<configured, paVars, viVars, rcVars, hubVars, sdVars, wdVars, msVars, brVars, srVars, obVars, encVars>>
    \/ StartConnect /\ UNCHANGED notRelay
    \/ RlTop /\ UNCHANGED notRelay
    \/ RlCapture /\ UNCHANGED notRelay
    \/ RlReadNothing /\ UNCHANGED notRelay
    \/ RlReadError /\ UNCHANGED notRelay
    \/ RcClose /\ UNCHANGED <<configured, paVars, viVars, sdVars, msVars, brVars, srVars, obVars, encVars>>
SpecCloses == InitCloses /\ [][ClosesNext]_vars

\* C17: a call of Close on a component whose Close has been called before
\* does not panic and leaves the stop channels, the connections and the
\* request counter as they are: nothing is signalled or closed again.
C17_SecondCloseIsNoOp ==
    [][\A k \in Components :
          (closeCalls'[k] > closeCalls[k] /\ closeCalls[k] >= 1) =>
              /\ ~panicked'
              /\ UNCHANGED <<paStopCh, viConnOpen, stopCh, closed, connState, cseq>>]_vars

\* Close has returned twice on the RTSP client, on a client that had a
\* connection, or twice on the VISCA controller
C17_Witness ==
    \/ closeCalls["rtsp"] = 2 /\ closeRet["rtsp"] = "nil" /\ conn # 0 /\ closed
    \/ closeCalls["visca"] = 2 /\ closeRet["visca"] = "error" /\ ~viConnOpen

(***************************************************************************)
(* Viewers that stay and send messages of every kind; the server may stop  *)
(***************************************************************************)
notMs == <<configured, paVars, viVars, sdVars, wdVars, paStopCh, viConnOpen,
           closeCalls, closeRet, encVars, brVars, srVars, obVars>>
InitInbound ==
    /\ InitPtzIdle /\ InitRtsp(0, 0, 0) /\ InitHub(Viewers)
    /\ InitDescribe({RtspScheme \o <<"h", "/", "s">>}, {<< >>})
    /\ quiet = << >> /\ readLoops = 0
    /\ InitClose /\ InitMessages(MaxInbound) /\ InitCall({NoCall}) /\ InitBrowser /\ InitStreamIdle /\ InitObserved
InboundNext ==
    \/ StartConnect /\ UNCHANGED notRelay
    \/ (\E v \in Viewers : Accept(v)) /\ UNCHANGED notRelay
    \/ (\E v \in Viewers : HandleWebSocket(v)) /\ UNCHANGED rcVars /\ UNCHANGED notMs
    \/ (\E v \in Viewers : Receive(v)) /\ UNCHANGED rcVars /\ UNCHANGED notMs
    \/ (\E v \in Viewers : HandleMessage(v)) /\ UNCHANGED rcVars /\ UNCHANGED notMs
    \/ (\E v \in Viewers : WritePump(v)) /\ UNCHANGED <<rcVars, hubVars, panicked>> /\ UNCHANGED notMs
    \/ ServerStop /\ UNCHANGED notRelay
    \/ ServerStopRtsp /\ UNCHANGED notRelay
SpecInbound == InitInbound /\ [][InboundNext]_vars

\* handleMessage returns for viewer v
Handled(v) == vPc[v] = "handling" /\ vPc'[v] # "handling"

\* C18: whatever the message, handleMessage returns: it does not panic, it
\* does not close the viewer or take it off the registry, and it enqueues
\* nothing to another viewer.  Data that is no envelope puts one
\* INVALID_MESSAGE error on the viewer's outbound queue and makes no call;
\* a type without a case and a payload of a known type that ParsePayload
\* rejects enqueue nothing and make no PTZ or media-session call.
C18_InboundNeverFatal ==
    [][\A v \in Viewers : Handled(v) =>
          /\ ~panicked'
          /\ vClosed'[v] = vClosed[v]
          /\ clients' = clients
          /\ \A w \in Viewers \ {v} : vOut'[w] = vOut[w]
          /\ vMsg[v].env = "bad" =>
                vOut'[v] = Append(vOut[v], InvalidMessage) /\ calls' = calls
          /\ (vMsg[v].env = "ok" /\ vMsg[v].type \notin KnownTypes) =>
                vOut' = vOut /\ calls' = calls
          /\ (vMsg[v].env = "ok" /\ vMsg[v].type \in ParsedTypes /\ ParseFails(vMsg[v].payload)) =>
                vOut' = vOut /\ calls' = calls]_vars

\* data that was no envelope has been answered with INVALID_MESSAGE on the
\* queue of the viewer that sent it, and the other viewer's queue is empty
C18_Witness ==
    \E v \in Viewers :
        /\ vPc[v] = "running"
        /\ vOut[v] = <<InvalidMessage>>
        /\ \A w \in Viewers \ {v} : vOut[w] = << >> /\ vPc[w] = "running"
        /\ calls = << >>
        /\ ~panicked

(***************************************************************************)
(* Either controller variant, one call with an argument of any size        *)
(***************************************************************************)
InitCalls ==
    /\ configured \in {"panasonic", "visca"}
    /\ InitPana /\ PaBudget(0, 0, 0)
    /\ InitVisca
    /\ InitRtsp(0, 0, 0) /\ InitHub({})
    /\ InitDescribe({RtspScheme \o <<"h", "/", "s">>}, {<< >>})
    /\ quiet = << >> /\ readLoops = 0
    /\ InitClose /\ InitMessages(0) /\ InitCall(PresetCalls \cup AxisCalls \cup StopCalls) /\ InitBrowser /\ InitStreamIdle /\ InitObserved
CallsNext ==
    \/ ViscaPreset /\ UNCHANGED <<configured, paVars, rcVars, hubVars, sdVars, wdVars, clVars, msVars, brVars, srVars, obVars>>
    \/ PanasonicPreset /\ UNCHANGED <<configured, paVars, viVars, rcVars, hubVars, sdVars, wdVars, clVars, msVars, brVars, srVars, obVars>>
    \/ ViscaEncode /\ UNCHANGED <<configured, paVars, viVars, rcVars, hubVars, sdVars, wdVars, clVars, msVars, brVars, srVars, obVars>>
    \/ PanasonicEncode /\ UNCHANGED <<configured, paVars, viVars, rcVars, hubVars, sdVars, wdVars, clVars, msVars, brVars, srVars, obVars>>
    \/ StopCall /\ UNCHANGED <<configured, paVars, viVars, rcVars, hubVars, sdVars, wdVars, clVars, msVars, brVars, srVars, obVars>>
SpecCalls == InitCalls /\ [][CallsNext]_vars

\* the number a command put on the wire carries: the last payload byte of a
\* VISCA packet, the decimal number after the two letters of a Panasonic
\* command
DigitOf(c) == CHOOSE d \in 0..9 : DigitChars[d + 1] = c
Carried(cmd) ==
    IF configured = "visca" THEN cmd[Len(cmd) - 1]
    ELSE 10 * DigitOf(cmd[3]) + DigitOf(cmd[4])
\* the command is the recall or the save the call asked for
Opcode(cmd) ==
    IF configured = "visca"
    THEN IF SubSeq(cmd, Len(cmd) - 5, Len(cmd) - 2) = <<1, 4, 63, 2>> THEN "RecallPreset"
         ELSE IF SubSeq(cmd, Len(cmd) - 5, Len(cmd) - 2) = <<1, 4, 63, 1>> THEN "SavePreset"
         ELSE "other"
    ELSE IF SubSeq(cmd, 1, 2) = <<"#", "R">> THEN "RecallPreset"
         ELSE IF SubSeq(cmd, 1, 2) = <<"#", "M">> THEN "SavePreset"
         ELSE "other"

Clamped(v) == IF v < -100 THEN -100 ELSE IF v > 100 THEN 100 ELSE v

\* C20: for every input, values outside [-1, 1] counting as the nearest
\* bound: the VISCA payloads have a pan speed in 1..24, a tilt speed in
\* 1..20 and a zoom speed in 0..7; +1.0 is pan speed 24 right (0x02) and
\* tilt speed 20 up, -1.0 is pan speed 24 left (0x01) and tilt speed 20
\* down; a value of the deadzone is direction stop (0x03) with speed 1 on
\* both axes.  The Panasonic value is in 1..99, 1 for -1.0, 99 for +1.0,
\* and 50 exactly for the values inside the deadzone.
C20_BoundaryAndDeadzone ==
    (encIn.op = "PanTiltZoom" /\ encOut # NoOut) =>
        LET v == encIn.n
            pt == encOut.wire[1]
            z == encOut.wire[2]
        IN  IF configured = "visca"
            THEN /\ pt[4] \in 1..24
                 /\ pt[5] \in 1..20
                 /\ z[4] \in {0} \cup 32..39 \cup 48..55
                 /\ Clamped(v) = 100 => pt = <<1, 6, 1, 24, 20, 2, 1>>
                 /\ Clamped(v) = -100 => pt = <<1, 6, 1, 24, 20, 1, 2>>
                 /\ (v >= -5 /\ v <= 5) => pt = <<1, 6, 1, 1, 1, 3, 3>> /\ z = <<1, 4, 7, 0>>
            ELSE /\ pt[2] \in 1..99
                 /\ z[2] \in 1..99
                 /\ Clamped(v) = 100 => pt[2] = 99
                 /\ Clamped(v) = -100 => pt[2] = 1
                 /\ (pt[2] = 50) <=> (v > -5 /\ v < 5)

\* the VISCA variant has encoded a pan and tilt of exactly +1.0
C20_Witness ==
    /\ configured = "visca"
    /\ encIn.op = "PanTiltZoom" /\ encIn.n = 100
    /\ encOut.wire = << <<1, 6, 1, 24, 20, 2, 1>>, <<1, 4, 7, 39>> >>

\* C22: a call of PanTilt, Zoom, Stop, RecallPreset or SavePreset of either
\* variant whose write to the camera fails returns no error of the send.
C22_SendErrorNeverReturned ==
    (encOut # NoOut /\ ~encIn.up) => encOut.err # "send"
\* the VISCA variant has handed a preset command to a connection whose
\* write fails, and returned nil
C22_Witness ==
    /\ configured = "visca"
    /\ encIn.op \in PresetOps /\ ~encIn.up
    /\ encOut.wire # << >> /\ encOut.err = "nil"

(***************************************************************************)
(* VISCA wire framing                                                      *)
(***************************************************************************)
Protocols == {"udp", "tcp"}
\* the sequence numbers a controller starts a run of commands with: 0 after
\* NewController, 2^32 - 2 after that many packets
StartSeqs == {[hi |-> 0, lo |-> 0], [hi |-> 65535, lo |-> 65534]}
InitFraming ==
    /\ configured = "visca"
    /\ InitPana /\ PaBudget(0, 0, 0)
    /\ protocol \in Protocols
    /\ seqNum \in StartSeqs
    /\ viSince = [g \in Groups |-> minInterval]
    /\ viWire = << >>
    /\ viPc = [s \in ViSessions |-> "idle"]
    /\ viCmd = [s \in ViSessions |-> NoCommand]
    /\ viNowAge = [s \in ViSessions |-> 0]
    /\ viMine = [s \in ViSessions |-> << >>]
    /\ viHandled = [s \in ViSessions |-> << >>]
    /\ viOwed = [g \in Groups |-> FALSE]
    /\ viMsgs = MaxMsgs
    /\ viElapsed = 0
    /\ InitRtsp(0, 0, 0) /\ InitHub({}) /\ InitDescribeIdle
SpecFraming == InitFraming /\ [][ViscaNext]_vars

\* the payloads an operation of a group hands to sendCommand
PayloadsOf(g, op) ==
    IF op = "Stop"
    THEN {IF g = "panTilt" THEN PanTiltStopPayload ELSE ZoomStopPayload}
    ELSE IF g = "panTilt"
    THEN {PanTiltPayload(m.pan, m.tilt) : m \in PTZCommands}
    ELSE {ZoomPayload(m.zoom) : m \in PTZCommands}
\* the frame inside a packet, and the 32-bit number of bytes 4..7
FrameOf(p) == IF protocol = "udp" THEN SubSeq(p, 9, Len(p)) ELSE p
SeqField(p) == [hi |-> p[5] * 256 + p[6], lo |-> p[7] * 256 + p[8]]
\* start + n modulo 2^32, for a small n
SeqPlus(start, n) ==
    [hi |-> (start.hi + (start.lo + n) \div 65536) % 65536,
     lo |-> (start.lo + n) % 65536]

\* C21: every packet handed to the connection holds the frame
\* [0x80|address, payload..., 0xFF]; over UDP the frame follows the header
\* 01 00, frame length (2 bytes big-endian), sequence number (4 bytes
\* big-endian), over TCP the packet is the bare frame; the sequence numbers
\* of the successive UDP packets are start, start + 1, ... modulo 2^32, none
\* skipped and none used twice, whichever sessions sent them.
C21_Framing ==
    \E start \in StartSeqs :
        \A i \in 1..Len(viWire) :
            LET p == viWire[i].pkt
                frame == FrameOf(p)
            IN  /\ Len(frame) >= 2
                /\ frame[1] = 128 + 1
                /\ frame[Len(frame)] = 255
                /\ SubSeq(frame, 2, Len(frame) - 1)
                       \in PayloadsOf(viWire[i].g, viWire[i].op)
                /\ \A k \in 1..Len(p) : p[k] \in 0..255
                /\ protocol = "udp" =>
                       /\ Len(p) = 8 + Len(frame)
                       /\ p[1] = 1 /\ p[2] = 0
                       /\ p[3] * 256 + p[4] = Len(frame)
                       /\ SeqField(p) = SeqPlus(start, i - 1)
                /\ protocol = "tcp" => p = frame
\* two sessions have sent over UDP, and the third packet carries the number
\* 0 after 2^32 - 1
C21_Witness ==
    /\ protocol = "udp"
    /\ Len(viWire) >= 3
    /\ SeqField(viWire[2].pkt) = [hi |-> 65535, lo |-> 65535]
    /\ SeqField(viWire[3].pkt) = [hi |-> 0, lo |-> 0]
    /\ \A s \in ViSessions : viMine[s] # << >>


(***************************************************************************)
(* The hub and its viewers while the camera connection breaks              *)
(***************************************************************************)
InitSurface ==
    InitPtzIdle /\ InitRtsp(0, MaxFaults, 0) /\ InitHub(Viewers) /\ InitDescribeIdle
SurfaceNext ==
    \/ StartConnect /\ UNCHANGED notRelay
    \/ RlTop /\ UNCHANGED notRelay
    \/ RlCapture /\ UNCHANGED notRelay
    \/ RlReadNothing /\ UNCHANGED notRelay
    \/ RlReadError /\ UNCHANGED notRelay
    \/ RecGuard /\ UNCHANGED notRelay
    \/ RecCloseOld /\ UNCHANGED notRelay
    \/ RecBackoff /\ UNCHANGED notRelay
    \/ RecWake /\ UNCHANGED notRelay
    \/ RecConnect /\ UNCHANGED notRelay
    \/ (\E v \in Viewers : Accept(v)) /\ UNCHANGED notRelay
    \/ (\E v \in Viewers : HandleWebSocket(v)) /\ UNCHANGED rcVars /\ UNCHANGED notMs
    \/ (\E v \in Viewers : WritePump(v)) /\ UNCHANGED <<rcVars, hubVars, panicked>> /\ UNCHANGED notMs
SpecSurface == InitSurface /\ [][SurfaceNext]_vars
\* with the scheduler's fairness: every goroutine that can take a step
\* takes one
FairSurface == SpecSurface /\ WF_vars(SurfaceNext)

\* the established camera connection has broken
ConnectionLost == faults < MaxFaults
\* the outbound queue of viewer v holds a status message or the error
\* CAMERA_DISCONNECTED
Notified(v) ==
    \E i \in 1..Len(vOut[v]) :
        vOut[v][i] = <<"status">> \/ vOut[v][i] = <<"error", "CAMERA_DISCONNECTED">>

\* C24: when the camera connection is lost, every registered viewer is
\* eventually sent a status message or the error CAMERA_DISCONNECTED.
C24_FailureSurfaced ==
    \A v \in Viewers :
        (ConnectionLost /\ v \in clients /\ vInit[v] /\ vOut[v] = << >>)
            ~> Notified(v)
\* the connection broke while both viewers were registered, had their first
\* status written, and had nothing queued
C24_Witness ==
    /\ ConnectionLost
    /\ clients = Viewers
    /\ \A v \in Viewers : vInit[v] /\ vOut[v] = << >>


(***************************************************************************)
(* The RTSP client under repeated calls of Connect                         *)
(***************************************************************************)
InitConnects ==
    InitPtzIdle /\ InitRtsp(MaxRefusals, MaxFaults, 0) /\ InitHub({}) /\ InitDescribeIdle
ConnectsNext ==
    \/ Connect /\ UNCHANGED hubVars /\ UNCHANGED notRelay
    \/ RlTop /\ UNCHANGED notRelay
    \/ RlCapture /\ UNCHANGED notRelay
    \/ RlReadNothing /\ UNCHANGED notRelay
    \/ RlReadError /\ UNCHANGED notRelay
    \/ RecGuard /\ UNCHANGED notRelay
    \/ RecCloseOld /\ UNCHANGED notRelay
    \/ RecBackoff /\ UNCHANGED notRelay
    \/ RecWake /\ UNCHANGED notRelay
    \/ RecConnect /\ UNCHANGED notRelay
SpecConnects == InitConnects /\ [][ConnectsNext]_vars

\* C25: at most one read-loop goroutine exists per client at any time,
\* however often Connect is called and however many reconnects occur.  A
\* read loop returns only when stopCh is closed, so until then every loop
\* started exists.
C25_SingleReadLoop == ~stopCh => readLoops <= 1
\* a reconnect has re-established the connection and the client still has
\* the one read loop its Connect started
C25_Witness ==
    /\ lastAttempt.by = "reconnect" /\ lastAttempt.ok
    /\ readLoops = 1


(***************************************************************************)
(* The browser client's send loop                                          *)
(***************************************************************************)
notBr == <<configured, paVars, viVars, rcVars, hubVars, sdVars, wdVars, clVars, msVars,
           srVars, obVars, encVars>>
InitSendLoop == InitPtzIdle /\ InitRtsp(0, 0, 0) /\ InitHub({}) /\ InitDescribeIdle
SendLoopNext ==
    \/ PollGamepad /\ UNCHANGED notBr
    \/ SendTick /\ UNCHANGED notBr
SpecSendLoop == InitSendLoop /\ [][SendLoopNext]_vars

\* the last message sent is a ptz_command (it has a non-zero axis)
LastWasCommand ==
    /\ wsOut # << >>
    /\ Last(wsOut).type = "ptz_command"
    /\ Last(wsOut).pan # 0 \/ Last(wsOut).tilt # 0 \/ Last(wsOut).zoom # 0

\* C26: a send tick that finds the input all-zero after a ptz_command was
\* the last message sent sends a ptz_stop; a tick sends at most one message,
\* and nothing but a tick sends a ptz_command.
C26_AutomaticStop ==
    [][/\ (brTicks' # brTicks /\ LastWasCommand /\ currentPTZ = Axes(0, 0, 0))
            => wsOut' = Append(wsOut, PTZStop)
       /\ Len(wsOut') <= Len(wsOut) + 1
       /\ brTicks' = brTicks => wsOut' = wsOut]_vars
\* a ptz_command at half deflection was followed by a ptz_stop when the
\* stick was released
C26_Witness ==
    /\ Len(wsOut) = 2
    /\ wsOut[1] = PTZCommand(50, 0, 0)
    /\ wsOut[2] = PTZStop


(***************************************************************************)
(* The Panasonic controller with its history: two sessions that drive pan  *)
(* and tilt, Stop included                                                 *)
(***************************************************************************)
InitObservedSpec ==
    /\ configured = "panasonic"
    /\ InitPana /\ PaBudget(MaxPanTiltCalls, 0, MaxStopCalls)
    /\ InitVisca
    /\ InitRtsp(0, 0, 0) /\ InitHub({}) /\ InitDescribeIdle
ObservedNext ==
    \/ (\E c \in PaCallers : PanTilt(c)) /\ Observe /\ UNCHANGED notPaOb
    \/ (\E c \in PaCallers : Trigger(c)) /\ Observe /\ UNCHANGED notPaOb
    \/ TimerFire /\ Observe /\ UNCHANGED notPaOb
    \/ PaTick /\ Observe /\ UNCHANGED notPaOb
    \/ (\E c \in PaCallers : StopBegin(c)) /\ Observe /\ UNCHANGED notPaOb
    \/ (\E c \in PaCallers : StopZoom(c)) /\ Observe /\ UNCHANGED notPaOb
    \/ (\E c \in PaCallers : StopSendPanTilt(c)) /\ Observe /\ UNCHANGED notPaOb
    \/ (\E c \in PaCallers : StopSendZoom(c)) /\ Observe /\ UNCHANGED notPaOb
    \/ (\E c \in PaCallers : StopReturn(c)) /\ Observe /\ UNCHANGED notPaOb
SpecObserved == InitObservedSpec /\ [][ObservedNext]_vars

\* this step is the fire of the deferred send of group g
Fires(g) == Len(timers'[g]) < Len(timers[g])
\* the commands PanTilt or Zoom calls submitted to group g, oldest first
CallsTo(g) == SelectSeq(paSubmitted[g], LAMBDA e : e.by = "call")

\* C27: when the deferred send of a group fires and sends, it sends the
\* value of the most recent PanTilt/Zoom call whose pending-update preceded
\* the fire, not an older one and not the one that scheduled the timer; the
\* step that fires clears timerRunning.
C27_LatestPendingWins ==
    [][\A g \in Groups :
          Fires(g) =>
             /\ timerRunning'[g] = FALSE
             /\ Sends(g) =>
                   /\ CallsTo(g) # << >>
                   /\ paLast'[g] = [cmd |-> Last(CallsTo(g)).cmd, by |-> "timer"]]_vars
\* a timer scheduled by one pan/tilt value has sent the value of a later
\* call: three values were submitted and the wire holds the first and the
\* third
C27_Witness ==
    /\ Len(CallsTo("panTilt")) = 3
    /\ Len(paWire["panTilt"]) = 2
    /\ paWire["panTilt"][2] = [cmd |-> CallsTo("panTilt")[3].cmd, by |-> "timer"]
    /\ CallsTo("panTilt")[2].cmd # CallsTo("panTilt")[3].cmd
    /\ CallsTo("panTilt")[2].cmd # CallsTo("panTilt")[1].cmd


\* C29: a PanTilt/Zoom call whose value is the last value sent for its
\* group does not trigger the throttle, whatever is pending or scheduled,
\* and a timer that fires with pending equal to sent sends nothing.
C29_SentValueNeverResent ==
    [][\A g \in Groups :
          /\ (Submits(g) /\ paLast[g].cmd = PaCmd(g, pending'[g]))
                => \A c \in PaCallers : paPc[c] = "idle" => paPc'[c] = "idle"
          /\ (Fires(g) /\ pending[g] = sent[g]) => ~Sends(g)]_vars
\* a call with the value last sent came in while another value was pending
\* and the deferred send was scheduled; the timer has fired since and the
\* wire still holds the one command
C29_Witness ==
    /\ Len(CallsTo("panTilt")) = 3
    /\ CallsTo("panTilt")[3].cmd = CallsTo("panTilt")[1].cmd
    /\ CallsTo("panTilt")[2].cmd # CallsTo("panTilt")[1].cmd
    /\ Len(paSubmitted["panTilt"]) = 3
    /\ Len(paWire["panTilt"]) = 1
    /\ ~timerRunning["panTilt"]
    /\ \A c \in PaCallers : paPc[c] = "idle"


\* C28: at most one deferred send is outstanding per group, whatever the
\* interleaving of PanTilt, Zoom, Stop and timer fires, and timerRunning is
\* TRUE exactly while one is scheduled and has not fired.
C28_OneTimerPerGroup ==
    \A g \in Groups :
        /\ Len(timers[g]) <= 1
        /\ timerRunning[g] <=> Len(timers[g]) = 1
\* two calls with a new value came in during the cooldown of the first
\* send: the first of them scheduled the deferred send, the second found it
\* scheduled
C28_Witness ==
    /\ timerRunning["panTilt"]
    /\ Len(timers["panTilt"]) = 1
    /\ Len(paWire["panTilt"]) = 1
    /\ Len(paSubmitted["panTilt"]) = 3
    /\ paSubmitted["panTilt"][2].cmd # paSubmitted["panTilt"][1].cmd
    /\ paSubmitted["panTilt"][3].cmd # paSubmitted["panTilt"][1].cmd
    /\ \A c \in PaCallers : paPc[c] = "idle"


(***************************************************************************)
(* One session that calls the Panasonic controller, one call after another *)
(***************************************************************************)
InitOrder ==
    /\ configured = "panasonic"
    /\ InitPana /\ PaBudget(MaxPanTiltCalls, MaxZoomCalls - 1, MaxStopCalls)
    /\ InitVisca
    /\ InitRtsp(0, 0, 0) /\ InitHub({}) /\ InitDescribeIdle
OrderNext ==
    \/ PanTilt("s1") /\ Observe /\ UNCHANGED notPaOb
    \/ Zoom("s1") /\ Observe /\ UNCHANGED notPaOb
    \/ Trigger("s1") /\ Observe /\ UNCHANGED notPaOb
    \/ TimerFire /\ Observe /\ UNCHANGED notPaOb
    \/ PaTick /\ Observe /\ UNCHANGED notPaOb
    \/ StopBegin("s1") /\ Observe /\ UNCHANGED notPaOb
    \/ StopZoom("s1") /\ Observe /\ UNCHANGED notPaOb
    \/ StopSendPanTilt("s1") /\ Observe /\ UNCHANGED notPaOb
    \/ StopSendZoom("s1") /\ Observe /\ UNCHANGED notPaOb
    \/ StopReturn("s1") /\ Observe /\ UNCHANGED notPaOb
SpecOrder == InitOrder /\ [][OrderNext]_vars

\* the commands of a history, without who issued them
Cmds(h) == [i \in 1..Len(h) |-> h[i].cmd]

\* C30: for the calls one session makes one after another, the commands on
\* the wire of a group are a subsequence, in order, of the commands the
\* session submitted to it (PanTilt or Zoom values and Stop); so after a
\* Stop went out no value submitted before it goes out.
C30_OrderPreserved ==
    \A g \in Groups : IsSubseq(Cmds(paWire[g]), Cmds(paSubmitted[g]))
\* a value was pending with its deferred send scheduled when Stop was
\* called; the stop command went out, the timer fired and sent nothing
C30_Witness ==
    /\ Len(paSubmitted["panTilt"]) = 3
    /\ paSubmitted["panTilt"][2].by = "call"
    /\ paSubmitted["panTilt"][2].cmd # paSubmitted["panTilt"][1].cmd
    /\ paSubmitted["panTilt"][2].cmd # <<"PTS", 50, 50>>
    /\ paSubmitted["panTilt"][3].by = "Stop"
    /\ Len(paWire["panTilt"]) = 2
    /\ paWire["panTilt"][1].cmd = paSubmitted["panTilt"][1].cmd
    /\ paWire["panTilt"][2].by = "Stop"
    /\ ~timerRunning["panTilt"]
    /\ sinceSend["panTilt"] < minInterval
    /\ paPc["s1"] = "idle"

(***************************************************************************)
(* Teardown order of a viewer session (SpecTeardown)                       *)
(***************************************************************************)
\* handleWebSocket has registered the viewer
Registered(v) == vPc[v] \notin {"absent", "new"}

\* the forwarding task was not told to stop, the media session is open or
\* the outbound queue is open
StillOpen(v) == vStopRTP[v] = 0 \/ vWebrtc[v] = "open" \/ vSend[v] = 0

\* C31: a viewer session that was registered is never absent from the
\* registry while its forwarding task has not been stopped, its media
\* session is open or its outbound queue is open: the removal from the
\* registry is the last step of every teardown.
C31_RemovedLast ==
    \A v \in Viewers : (Registered(v) /\ v \notin clients) => ~StillOpen(v)

\* the viewer left: its readPump has taken it off the registry and has not
\* closed it yet, with the media session open and forwardRTP running
C31_Witness ==
    \E v \in Viewers :
        /\ vPc[v] = "closing"
        /\ v \notin clients
        /\ vWebrtc[v] = "open"
        /\ vFwd[v] = "running"
        /\ vSend[v] = 0

(***************************************************************************)
(* The requests of the RTSP client: handshakes, keepalives, reconnects     *)
(* and the TEARDOWN of Close, with their history                           *)
(***************************************************************************)
InitRequests == InitPtzIdle /\ InitRtsp(MaxRefusals, MaxFaults, 0) /\ InitHub({}) /\ InitDescribeIdle
RequestsNext ==
    \/ StartConnect /\ ObserveRtsp /\ UNCHANGED notRelayOb
    \/ RlTop /\ ObserveRtsp /\ UNCHANGED notRelayOb
    \/ RlCapture /\ ObserveRtsp /\ UNCHANGED notRelayOb
    \/ RlReadNothing /\ ObserveRtsp /\ UNCHANGED notRelayOb
    \/ RlReadError /\ ObserveRtsp /\ UNCHANGED notRelayOb
    \/ KaTick /\ ObserveRtsp /\ UNCHANGED notRelayOb
    \/ KaSend /\ ObserveRtsp /\ UNCHANGED notRelayOb
    \/ RecGuard /\ ObserveRtsp /\ UNCHANGED notRelayOb
    \/ RecCloseOld /\ ObserveRtsp /\ UNCHANGED notRelayOb
    \/ RecBackoff /\ ObserveRtsp /\ UNCHANGED notRelayOb
    \/ RecWake /\ ObserveRtsp /\ UNCHANGED notRelayOb
    \/ RecConnect /\ ObserveRtsp /\ UNCHANGED notRelayOb
    \/ ServerStop /\ ObserveRtsp /\ UNCHANGED notRelayOb
    \/ ServerStopRtsp /\ ObserveRtsp /\ UNCHANGED notRelayOb
SpecRequests == InitRequests /\ [][RequestsNext]_vars

\* the requests sent on connection k, in order
OnConn(k) == SelectSeq(rtspOut, LAMBDA r : r.conn = k)
\* SETUP of connection k returned: PLAY followed it
SetupReturned(k) == \E i \in 1..Len(rtspOut) :
                       rtspOut[i].conn = k /\ rtspOut[i].method = "PLAY"

\* C32: on every connection the first request carries CSeq 1 and every
\* later request a larger CSeq than the one before it; every request after
\* a SETUP that returned carries the session of its own connection, and
\* every other request carries no session, so none carries the session of
\* an earlier connection.
C32_RequestHeaders ==
    \A k \in Conns :
        LET rs == OnConn(k)
        IN  /\ rs # << >> => rs[1].cseq = 1
            /\ \A i \in 1..(Len(rs) - 1) : rs[i + 1].cseq > rs[i].cseq
            /\ \A i \in 1..Len(rs) :
                 rs[i].session =
                    IF SetupReturned(k) /\ \E j \in 1..(i - 1) : rs[j].method = "SETUP"
                    THEN k ELSE 0

\* the first connection had its handshake and a keepalive, the client then
\* reconnected, and Close sent TEARDOWN on the second connection
C32_Witness ==
    /\ \E i \in 1..Len(rtspOut) :
          rtspOut[i].conn = 1 /\ rtspOut[i].method = "GET_PARAMETER"
    /\ \E i \in 1..Len(rtspOut) :
          /\ rtspOut[i].conn = 2 /\ rtspOut[i].method = "TEARDOWN"
          /\ rtspOut[i].cseq = 5 /\ rtspOut[i].session = 2

InitStreamSpec ==
    /\ InitPtzIdle /\ InitRtsp(0, 0, 0) /\ InitHub({})
    /\ InitDescribe({RtspScheme \o <<"h", "/", "s">>}, {<< >>})
    /\ quiet = << >> /\ readLoops = 0
    /\ InitClose /\ InitMessages(0) /\ InitCall({NoCall}) /\ InitBrowser /\ InitStream /\ InitObserved
StreamNext ==
    \/ RlSkipMarker /\ UNCHANGED notSr
    \/ RlFramePayload /\ UNCHANGED notSr
    \/ RlPayloadError /\ UNCHANGED notSr
SpecStream == InitStreamSpec /\ [][StreamNext]_vars

\* C34: the frames the readLoop makes of the bytes are, in order, frames
\* the camera sent, and once the bytes are used up they are all of them: a
\* text response between two frames costs no frame and alters none.
C34_StrayResponseSkipped ==
    /\ Len(framed) <= Len(camFrames)
    /\ \A i \in 1..Len(framed) : framed[i] = camFrames[i]
    /\ Len(upstream) < 4 => framed = camFrames

(***************************************************************************)
(* What runs under the registry lock clientsMu (SpecTeardown)              *)
(***************************************************************************)
\* this step is a locked section of clientsMu: the registration of
\* handleWebSocket, the removal of readPump's deferred function, or the
\* loop of Server.Stop over the registry
UnderClientsMu ==
    \/ clients' # clients
    \/ srvPc = "serving" /\ srvPc' = "stopping"

\* this step closes the media session of a viewer: webrtc.Session.Close
ClosesMediaSession ==
    \E v \in Viewers : vWebrtc[v] = "open" /\ vWebrtc'[v] = "closed"

\* C35: no step that runs under the registry lock closes a media session.
C35_NoIOUnderRegistryLock ==
    [][UnderClientsMu => ~ClosesMediaSession]_vars

\* Server.Stop has run while a viewer had its media session open
C35_Witness ==
    /\ srvPc = "stopping"
    /\ \E v \in clients : vWebrtc[v] = "closed" /\ vCloseCalls[v] = 1

(***************************************************************************)
(* sendMessage and the close of the outbound queue (SpecInbound)           *)
(***************************************************************************)
\* C36: no sendMessage ever sends on an outbound queue that Client.Close
\* has closed: the panic of a send on a closed channel is unreachable.
C36_NoSendOnClosedQueue == ~panicked

\* Server.Stop has closed the outbound queue of a viewer whose readPump is
\* inside handleMessage with a ping to answer
C36_Witness ==
    \E v \in Viewers :
        /\ vSend[v] = 1
        /\ vPc[v] = "handling"
        /\ vMsg[v].env = "ok" /\ vMsg[v].type = "ping"
        /\ ~panicked

(***************************************************************************)
(* The readers of the upstream connection (SpecShutdown)                   *)
(***************************************************************************)
\* this step is a sendRequest outside connect, which reads the response
\* from c.reader: the keepalive's GET_PARAMETER or the TEARDOWN of Close
ReadsResponse == KeepsAlive \/ TearsDown
\* the readLoop has taken c.reader and is in io.ReadFull on it, without c.mu
ReadLoopReading == rlPc = "read" /\ rlReader = reader

\* C37: no keepalive and no Close reads a response from the reader while
\* the readLoop is reading interleaved frames from it.
C37_ExclusiveReader ==
    [][ReadsResponse => ~ReadLoopReading]_vars

\* a keepalive was sent and answered on the first connection while the
\* readLoop was between two reads
C37_Witness ==
    /\ cseq = 5
    /\ conn = 1
    /\ connState[1] = "playing"
    /\ kaPc = "wait"
    /\ rlPc = "top"
    /\ ~closed

(***************************************************************************)
(* The reconnect goroutines and the connections they answer for            *)
(* (SpecRequests)                                                          *)
(***************************************************************************)
\* C38: a reconnect goroutine that gets past the guard was started by an
\* error on the connection the client holds at that moment: one started
\* for an earlier connection returns at the guard, and closes nothing.
C38_LateReconnectReturns ==
    [][PassesGuard => recFor' = conn]_vars

\* the second connection is up and healthy while a reconnect goroutine
\* started by an error on the first has not run yet
C38_Witness ==
    /\ spawnedFor = <<1>>
    /\ conn = 2
    /\ connected
    /\ connState[2] = "playing"
    /\ recPc = "none"
    /\ ~stopCh

(***************************************************************************)
(* Close of the RTSP client during a reconnect (SpecRequests)              *)
(***************************************************************************)
\* C39: once Close has returned the client dials no connection, does not
\* become connected, and holds no open connection.
C39_NoConnectAfterClose ==
    /\ [](closed => rtspOpen = {})
    /\ [][closed => (dialled' = dialled /\ (connected' => connected))]_vars

\* Close has returned while the reconnect sleeps in its backoff
C39_Witness ==
    /\ closed
    /\ stopCh
    /\ recPc = "sleep"
    /\ rtspOpen = {}
    /\ ~connected

(***************************************************************************)
(* The sent record of the Panasonic controller and the wire (SpecObserved) *)
(***************************************************************************)
\* C40: whenever no call of the controller is under way, the sent record of
\* each actuator group is the value of the last command of the group that
\* was put on the wire.
C40_SentRecordConsistent ==
    PaAllIdle =>
        \A g \in Groups :
            paWire[g] # << >> => Last(paWire[g]).cmd = PaCmd(g, sent[g])

\* a Stop is between zeroing the records and sending its stop command, and
\* the other session's command of the meantime is already on the wire
C40_Witness ==
    \E c \in PaCallers :
        /\ paPc[c] \notin {"idle", "trigger"}
        /\ sent["panTilt"] # Zero("panTilt")
        /\ paWire["panTilt"] # << >>
        /\ Last(paWire["panTilt"]).cmd = PaCmd("panTilt", sent["panTilt"])
        /\ paSubmitted["panTilt"] # << >>
        /\ \E i \in 1..Len(paSubmitted["panTilt"]) : paSubmitted["panTilt"][i].by = "Stop"

=============================================================================
